---------------------------- MODULE Spec2Model ----------------------------
(***************************************************************************)
(* A model of lovr's GPU resource and state management core:               *)
(*   - the synchronization tracker and the buffer/texture objects of the   *)
(*     gpu-backed graphics module (src/unnamed/part_002),                  *)
(*   - the OpenGL state cache, draw executor, shader uniforms and meshes   *)
(*     (src/unnamed/part_001).                                             *)
(* Bit masks are sets of bit indices; pointers are small integers with 0   *)
(* for NULL; a float or int is the word holding its bit pattern.           *)
(***************************************************************************)
EXTENDS Integers, Sequences, FiniteSets, TLC

VARIABLES
  op,        \* the last operation run: its name, arguments and outcome
  calls,     \* the device calls the last operation issued, in order
  access,    \* Buffer.access of every buffer (a mask), 0 = {} for a free id
  alive,     \* the buffers created so far
  sync,      \* state.sync: per access category, the list of tracked masks
  unsynced,  \* per buffer, the accesses made that no barrier has covered yet
  written,   \* the buffers mapped at least once
  probe,     \* inputs and result of one evaluation of a function of its arguments
  state,     \* the OpenGL state cache (the static `state` of part_001)
  hwCount,   \* per cached binding, the device calls issued for it so far
  changeCount, \* per cached binding, the requests that differed from the one before
  lastReq,   \* per cached binding, the value last requested
  nreq,      \* the number of operations run on the state cache
  shaders,   \* per Shader, its program and its uniform and block tables
  texRefs,   \* the reference count of every OpenGL Texture (0: not allocated)
  images,    \* per OpenGL Texture, its type, depth, size and mipmap count
  pending,   \* the uniforms whose bytes a set has changed since the last flush
  meshes,    \* per Mesh, its counts, names, CPU store and GPU buffer size
  textures,  \* the Texture objects of part_002: liveness, references, source
  holds,     \* per Texture of part_002, the references the application holds
  headset    \* the static `state` of the OpenVR headset driver (openvr.c)

syncVars == <<access, alive, sync, unsynced, written>>
cacheVars == <<state, hwCount, changeCount, lastReq, nreq>>
shaderVars == <<shaders, texRefs, images, pending>>
meshVars == <<meshes>>
viewVars == <<textures, holds, headset>>
vars == <<op, calls, access, alive, sync, unsynced, written, probe,
          state, hwCount, changeCount, lastReq, nreq, shaders, texRefs, images, pending, meshes,
          textures, holds, headset>>

Range(s) == {s[i] : i \in DOMAIN s}

-----------------------------------------------------------------------------
(* Bounds *)

MaxBuffers == 4
NumReadAccess == 2
MaxName == 2         \* device object names requested of the cache: 0 .. MaxName
MaxSlot == 1         \* uniform buffer slots requested: 0 .. MaxSlot
MaxDim == 1          \* viewport widths and heights: 0 .. MaxDim
MaxRequests == 3     \* operations run on the state cache in one behaviour
MaxGlTextures == 1   \* OpenGL textures the application holds: 1 .. MaxGlTextures
MaxWord == 1         \* float and int bit patterns: 0 .. MaxWord
MaxVertices == 2     \* vertex counts a mesh is created with: 0 .. MaxVertices
MaxViews == 3        \* Texture objects of part_002 alive at a time
MaxHolds == 2        \* references the application holds to one Texture
MaxDraws == 2        \* draw calls issued between two presents
MaxSize == 4         \* widths and heights of a texture: 1 .. MaxSize
MaxLayers == 6       \* depths and layer counts of a texture: 1 .. MaxLayers
MaxSwitches == 1     \* programs made current over the life of the state cache
MaxBlockUniforms == 2  \* uniforms of a shader block: 1 .. MaxBlockUniforms
MaxRefs == 3         \* references on a texture beyond which no slot is dirtied

-----------------------------------------------------------------------------
(* Synchronization tracker (part_002) *)

GPU_WRITE_COLOR_TARGET == 0
GPU_WRITE_DEPTH_TARGET == 1
GPU_WRITE_COMPUTE_SHADER_STORAGE == 2
GPU_WRITE_UPLOAD == 3
NumWriteAccess == 4
GPU_ACCESS_COUNT == NumWriteAccess + NumReadAccess

Access == 0 .. (GPU_ACCESS_COUNT - 1)
Masks == SUBSET Access
Buffers == 1 .. MaxBuffers

\* `m & WRITE_MASK` as the preprocessor expands it: the macro's body is not
\* parenthesized, so & binds to its first term only and the others are or-ed.
AndWriteMask(m) ==
  (m \cap {GPU_WRITE_COLOR_TARGET})
    \cup {GPU_WRITE_DEPTH_TARGET}
    \cup {GPU_WRITE_COMPUTE_SHADER_STORAGE}
    \cup {GPU_WRITE_UPLOAD}

\* The four write categories WRITE_MASK names.
WriteMask ==
  {GPU_WRITE_COLOR_TARGET, GPU_WRITE_DEPTH_TARGET,
   GPU_WRITE_COMPUTE_SHADER_STORAGE, GPU_WRITE_UPLOAD}

\* The barrier test without its `before != 0` conjunct.
BarrierNeeded_NoPendingTest(before, after) ==
  AndWriteMask(before) # {} \/ AndWriteMask(after) # {}

\* The condition of the if in lovrBufferMap.
BarrierNeeded(before, after) ==
  before # {} /\ (AndWriteMask(before) # {} \/ AndWriteMask(after) # {})

\* A loop that stops after the first mask of each list.
ClearPending_FirstOnly(acc, sy, before) ==
  [b \in DOMAIN acc |-> acc[b] \ {i \in before : sy[i] # <<>> /\ b = sy[i][1]}]

\* The loop over the categories of `before`: every mask on list i loses bit i.
ClearPending(acc, sy, before) ==
  [b \in DOMAIN acc |-> acc[b] \ {i \in before : b \in Range(sy[i])}]

\* The lists kept as they are.
ClearLists_Kept(sy, before) == sy

\* arr_clear of the lists of the categories of `before`.
ClearLists(sy, before) ==
  [i \in Access |-> IF i \in before THEN <<>> ELSE sy[i]]

\* A lovrBufferMap that never records the new access.
RecordAccess_Forgotten(mask, after) == mask

\* buffer->access |= after
RecordAccess(mask, after) == mask \cup after

lovrBufferCreate ==
  /\ \E b \in Buffers :
       /\ b \notin alive
       /\ \A c \in Buffers : c < b => c \in alive
       /\ alive' = alive \cup {b}
       /\ access' = [access EXCEPT ![b] = {}]
       /\ op' = [name |-> "lovrBufferCreate", buffer |-> b, before |-> {},
                 hazard |-> {}, again |-> FALSE]
       /\ calls' = << <<"gpu_buffer_init", b>> >>
  /\ UNCHANGED <<sync, unsynced, written, probe, cacheVars, shaderVars, meshVars, viewVars>>

lovrBufferMap ==
  /\ \E b \in alive :
       LET before == access[b]
           after == {GPU_WRITE_UPLOAD}
           barrier == BarrierNeeded(before, after)
           acc1 == IF barrier THEN ClearPending(access, sync, before) ELSE access
           sy1 == IF barrier THEN ClearLists(sync, before) ELSE sync
           syncCalls == IF barrier THEN << <<"gpu_sync", before, after>> >> ELSE <<>>
           covered == IF barrier THEN before ELSE {}
           uns1 == [x \in Buffers |-> unsynced[x] \ covered]
       IN /\ access' = [acc1 EXCEPT ![b] = RecordAccess(@, after)]
          /\ sync' = [sy1 EXCEPT ![GPU_WRITE_UPLOAD] = Append(@, b)]
          /\ calls' = syncCalls \o << <<"gpu_buffer_map", b>> >>
          /\ unsynced' = [uns1 EXCEPT ![b] = @ \cup after]
          /\ written' = written \cup {b}
          /\ op' = [name |-> "lovrBufferMap", buffer |-> b, before |-> before,
                    hazard |-> uns1[b], again |-> b \in written]
  /\ UNCHANGED <<alive, probe, cacheVars, shaderVars, meshVars, viewVars>>

\* The destructor of a Buffer: the Buffer is gone when it returns. The lists of
\* state.sync are not looked at. A buffer is destroyed while the upload list
\* holds fewer than MaxBuffers masks.
lovrBufferDestroy ==
  /\ Len(sync[GPU_WRITE_UPLOAD]) < MaxBuffers
  /\ \E b \in alive :
       /\ alive' = alive \ {b}
       /\ calls' = << <<"gpu_buffer_destroy", b>> >>
       /\ op' = [name |-> "lovrBufferDestroy", buffer |-> b, before |-> access[b],
                 hazard |-> {}, again |-> FALSE]
  /\ UNCHANGED <<access, sync, unsynced, written, probe, cacheVars, shaderVars,
                 meshVars, viewVars>>

\* The barrier test of lovrBufferMap as a function of both masks.
EvalBarrier ==
  /\ probe.done = FALSE
  /\ probe' = [probe EXCEPT !.done = TRUE,
                            !.result = BarrierNeeded(probe.before, probe.after)]
  /\ op' = [name |-> "BarrierNeeded"]
  /\ UNCHANGED <<calls, syncVars, cacheVars, shaderVars, meshVars, viewVars>>

-----------------------------------------------------------------------------
(* State cache (part_001): cached bindings *)

MAX_TEXTURES == 16
MAX_UNIFORM_BUFFERS == 32
MAX_CANVASES == 4
MAX_ATTACHMENTS == 16

Names == 0 .. MaxName
Slots == 0 .. MaxSlot
Viewports == {<<0, 0, w, h>> : w, h \in 0 .. MaxDim}

\* The operations of part_001 are functions of a world w: the state cache
\* w.state and the device calls w.calls issued so far by the running operation.
\* w.shaders, w.meshes and w.refs are the Shader and Mesh objects and the
\* Texture reference counts; w.error is the message of the lovrThrow that ended
\* the operation.
World ==
  [state |-> state, calls |-> <<>>, shaders |-> shaders, refs |-> texRefs,
   images |-> images,
   meshes |-> meshes, error |-> "none"]

Throw(w, message) == IF w.error = "none" THEN [w EXCEPT !.error = message] ELSE w

Call(w, c) == [w EXCEPT !.calls = Append(@, c)]

\* A setter that binds without consulting the cache.
lovrGpuBindFramebuffer_Uncached(w, framebuffer) ==
  Call([w EXCEPT !.state.framebuffer = framebuffer],
       <<"glBindFramebuffer", framebuffer>>)

lovrGpuBindFramebuffer(w, framebuffer) ==
  IF w.state.framebuffer # framebuffer
    THEN Call([w EXCEPT !.state.framebuffer = framebuffer],
              <<"glBindFramebuffer", framebuffer>>)
    ELSE w

lovrGpuBindIndexBuffer(w, indexBuffer) ==
  IF w.state.indexBuffer # indexBuffer
    THEN Call([w EXCEPT !.state.indexBuffer = indexBuffer],
              <<"glBindBuffer", "GL_ELEMENT_ARRAY_BUFFER", indexBuffer>>)
    ELSE w

lovrGpuBindUniformBuffer(w, uniformBuffer, slot) ==
  IF w.state.uniformBuffers[slot] # uniformBuffer
    THEN Call([w EXCEPT !.state.uniformBuffers[slot] = uniformBuffer],
              <<"glBindBufferBase", slot, uniformBuffer>>)
    ELSE w

lovrGpuBindVertexArray(w, vertexArray) ==
  IF w.state.vertexArray # vertexArray
    THEN Call([w EXCEPT !.state.vertexArray = vertexArray],
              <<"glBindVertexArray", vertexArray>>)
    ELSE w

lovrGpuBindVertexBuffer(w, vertexBuffer) ==
  IF w.state.vertexBuffer # vertexBuffer
    THEN Call([w EXCEPT !.state.vertexBuffer = vertexBuffer],
              <<"glBindBuffer", "GL_ARRAY_BUFFER", vertexBuffer>>)
    ELSE w

\* memcmp of the four floats: the viewport is compared bit for bit.
lovrGpuSetViewport(w, viewport) ==
  IF w.state.viewport # viewport
    THEN Call([w EXCEPT !.state.viewport = viewport], <<"glViewport", viewport>>)
    ELSE w

\* lovrGpuUseProgram that counts every request.
lovrGpuUseProgram_CountsEvery(w, program) ==
  IF w.state.program # program
    THEN Call([w EXCEPT !.state.program = program,
                        !.state.stats.shaderSwitches = @ + 1],
              <<"glUseProgram", program>>)
    ELSE [w EXCEPT !.state.stats.shaderSwitches = @ + 1]

lovrGpuUseProgram(w, program) ==
  IF w.state.program # program
    THEN Call([w EXCEPT !.state.program = program,
                        !.state.stats.shaderSwitches = @ + 1],
              <<"glUseProgram", program>>)
    ELSE w

\* The cached bindings, and the record the cache keeps of each.
Settings ==
  {<<"framebuffer", 0>>, <<"indexBuffer", 0>>, <<"vertexArray", 0>>,
   <<"vertexBuffer", 0>>, <<"viewport", 0>>, <<"program", 0>>}
    \cup {<<"uniformBuffer", i>> : i \in Slots}

Cached(st, setting) ==
  CASE setting[1] = "framebuffer" -> <<st.framebuffer>>
    [] setting[1] = "indexBuffer" -> <<st.indexBuffer>>
    [] setting[1] = "vertexArray" -> <<st.vertexArray>>
    [] setting[1] = "vertexBuffer" -> <<st.vertexBuffer>>
    [] setting[1] = "viewport" -> st.viewport
    [] setting[1] = "program" -> <<st.program>>
    [] setting[1] = "uniformBuffer" -> <<st.uniformBuffers[setting[2]]>>

\* One request to a cached binding setter, with the bookkeeping of the counts.
Request(setting, value, w) ==
  /\ nreq < MaxRequests
  /\ nreq' = nreq + 1
  /\ state' = w.state
  /\ calls' = w.calls
  /\ hwCount' = [hwCount EXCEPT ![setting] = @ + Len(w.calls)]
  /\ changeCount' = [changeCount EXCEPT ![setting] =
                       IF value # lastReq[setting] THEN @ + 1 ELSE @]
  /\ lastReq' = [lastReq EXCEPT ![setting] = value]
  /\ op' = [name |-> "request", setting |-> setting, value |-> value,
            prev |-> Cached(state, setting)]
  /\ UNCHANGED <<syncVars, probe, shaderVars, meshVars, viewVars>>

BindFramebuffer ==
  \E n \in Names : Request(<<"framebuffer", 0>>, <<n>>, lovrGpuBindFramebuffer(World, n))

BindIndexBuffer ==
  \E n \in Names : Request(<<"indexBuffer", 0>>, <<n>>, lovrGpuBindIndexBuffer(World, n))

BindUniformBuffer ==
  \E n \in Names, i \in Slots :
    Request(<<"uniformBuffer", i>>, <<n>>, lovrGpuBindUniformBuffer(World, n, i))

BindVertexArray ==
  \E n \in Names : Request(<<"vertexArray", 0>>, <<n>>, lovrGpuBindVertexArray(World, n))

BindVertexBuffer ==
  \E n \in Names : Request(<<"vertexBuffer", 0>>, <<n>>, lovrGpuBindVertexBuffer(World, n))

SetViewport ==
  \E v \in Viewports : Request(<<"viewport", 0>>, v, lovrGpuSetViewport(World, v))

UseProgram ==
  \E n \in Names : Request(<<"program", 0>>, <<n>>, lovrGpuUseProgram(World, n))

\* The zero-initialized static state after lovrGpuInit.
InitialState ==
  [ blendMode |-> "unset", blendAlphaMode |-> "unset",
    culling |-> FALSE, depthEnabled |-> FALSE, depthTest |-> "COMPARE_LESS",
    depthWrite |-> TRUE, lineWidth |-> 1, stencilEnabled |-> FALSE,
    stencilMode |-> "COMPARE_NONE", stencilValue |-> 0, stencilWriting |-> FALSE,
    winding |-> "WINDING_COUNTERCLOCKWISE", wireframe |-> FALSE,
    framebuffer |-> 0, indexBuffer |-> 0, program |-> 0,
    uniformBuffers |-> [i \in 0 .. (MAX_UNIFORM_BUFFERS - 1) |-> 0],
    vertexArray |-> 0, vertexBuffer |-> 0, viewport |-> <<0, 0, 0, 0>>,
    defaultTexture |-> 0, textures |-> [i \in 0 .. (MAX_TEXTURES - 1) |-> 0],
    canvasCount |-> 0, canvas |-> [i \in 0 .. (MAX_CANVASES - 1) |-> 0],
    srgb |-> FALSE, supportsSinglepass |-> FALSE,
    stats |-> [shaderSwitches |-> 0, drawCalls |-> 0] ]

InitCacheVars ==
  /\ state = InitialState
  /\ hwCount = [s \in Settings |-> 0]
  /\ changeCount = [s \in Settings |-> 0]
  /\ lastReq = [s \in Settings |-> Cached(InitialState, s)]
  /\ nreq = 0

-----------------------------------------------------------------------------
(* Textures of the OpenGL backend (part_001) and the texture slots *)

SizeofFloat == 4
SizeofInt == 4
SizeofPointer == 8

Words == 0 .. MaxWord
TextureIds == 1 .. (MaxGlTextures + 1)
TextureSlots == 0 .. (MAX_TEXTURES - 1)

\* lovrAlloc hands out a free object; a freed one may be handed out again.
NextTexture(refs) == CHOOSE t \in TextureIds : refs[t] = 0 /\ \A u \in TextureIds : refs[u] = 0 => t <= u

\* A Texture as lovrAlloc hands it out: zeroed.
NoImage ==
  [type |-> "none", depth |-> 0, mipmaps |-> FALSE, allocated |-> FALSE,
   width |-> 0, height |-> 0, mipmapCount |-> 0]

lovrRetain(w, t) == IF t = 0 THEN w ELSE [w EXCEPT !.refs[t] = @ + 1]

\* The last release runs the destructor, lovrTextureDestroy of part_001.
\* Releasing a Texture that has been freed is undefined.
lovrRelease(w, t) ==
  IF t = 0 THEN w
  ELSE IF w.refs[t] = 0 THEN Throw(w, "undefined")
  ELSE IF w.refs[t] = 1
    THEN Call([w EXCEPT !.refs[t] = 0, !.images[t] = NoImage], <<"glDeleteTextures", t>>)
    ELSE [w EXCEPT !.refs[t] = @ - 1]

\* lovrGpuBindTexture from its cache test on, for a texture that is not NULL.
BindTextureObject(w, texture, slot) ==
  IF w.error # "none" THEN w
  ELSE IF slot \notin TextureSlots THEN Throw(w, "Invalid texture slot")
  ELSE IF texture \notin TextureIds THEN Throw(w, "invalid pointer")
  ELSE IF texture # w.state.textures[slot]
    THEN LET w1 == lovrRelease(lovrRetain(w, texture), w.state.textures[slot])
             w2 == [w1 EXCEPT !.state.textures[slot] = texture]
         IN Call(Call(w2, <<"glActiveTexture", slot>>), <<"glBindTexture", texture>>)
    ELSE w

\* lovrTextureCreate(TEXTURE_2D, &textureData, 1, ...) of a 1x1 image: every
\* step of it binds the new texture to slot 0 first.
lovrTextureCreate(w, texture) ==
  LET image == [type |-> "TEXTURE_2D", depth |-> 1, mipmaps |-> FALSE, allocated |-> TRUE,
                width |-> 1, height |-> 1, mipmapCount |-> 1]
      w1 == Call([w EXCEPT !.refs[texture] = 1, !.images[texture] = image],
                 <<"glGenTextures", texture>>)
      w2 == BindTextureObject(w1, texture, 0)
      w3 == Call(Call(Call(BindTextureObject(w2, texture, 0),
                 <<"glTexParameteri", texture, "GL_TEXTURE_MIN_FILTER">>),
                 <<"glTexParameteri", texture, "GL_TEXTURE_MAG_FILTER">>),
                 <<"glTexParameteri", texture, "GL_TEXTURE_MAX_ANISOTROPY_EXT">>)
      w4 == Call(Call(BindTextureObject(w3, texture, 0),
                 <<"glTexParameteri", texture, "GL_TEXTURE_WRAP_S">>),
                 <<"glTexParameteri", texture, "GL_TEXTURE_WRAP_T">>)
      w5 == Call(Call(BindTextureObject(w4, texture, 0),
                 <<"glTexStorage2D", texture>>),
                 <<"glTexSubImage2D", texture>>)
  IN w5

lovrGpuBindTexture(w, texture, slot) ==
  IF w.error # "none" THEN w
  ELSE IF slot \notin TextureSlots THEN Throw(w, "Invalid texture slot")
  ELSE IF texture = 0
    THEN IF w.state.defaultTexture = 0
           THEN LET t == NextTexture(w.refs)
                    w1 == lovrTextureCreate(w, t)
                    w2 == [w1 EXCEPT !.state.defaultTexture = t]
                IN BindTextureObject(w2, t, slot)
           ELSE BindTextureObject(w, w.state.defaultTexture, slot)
    ELSE BindTextureObject(w, texture, slot)

lovrGpuDirtyTexture(w, slot) ==
  IF slot \notin TextureSlots THEN Throw(w, "Invalid texture slot")
  ELSE [w EXCEPT !.state.textures[slot] = 0]

-----------------------------------------------------------------------------
(* Shaders and their uniforms (part_001) *)

ShaderIds == {1}

Decl(name, type, components, count, location) ==
  [name |-> name, type |-> type, components |-> components, count |-> count,
   location |-> location]

\* The linked programs given to lovrShaderCreate: the active uniforms that
\* glGetActiveUniform reports, in order, the number of uniform blocks, and the
\* location glGetAttribLocation reports for each active attribute.
Programs ==
  { [decls |-> << Decl("lovrPointSize", "UNIFORM_FLOAT", 1, 1, 0),
                  Decl("tex", "UNIFORM_SAMPLER", 1, 1, 1) >>,
     blockCount |-> 0, attributes |-> ("lovrPosition" :> 0)],
    [decls |-> << Decl("m", "UNIFORM_MATRIX", 2, 1, 0) >>,
     blockCount |-> 1, attributes |-> ("lovrVertexColor" :> 0) @@ ("lovrPosition" :> 1)],
    [decls |-> << Decl("lovrEye", "UNIFORM_INT", 1, 1, 0),
                  Decl("unused", "UNIFORM_FLOAT", 1, 1, -1),
                  Decl("v", "UNIFORM_FLOAT", 2, 1, 1) >>,
     blockCount |-> 0, attributes |-> <<>>] }

UniformNames == {"lovrPointSize", "tex", "m", "lovrEye", "unused", "v"}

NoShader ==
  [program |-> 0, uniforms |-> <<>>, order |-> <<>>, blocks |-> <<>>,
   attributes |-> <<>>]

\* uniform.size as the switch of lovrShaderCreate computes it.
UniformSize(d) ==
  CASE d.type = "UNIFORM_FLOAT" -> d.components * d.count * SizeofFloat
    [] d.type = "UNIFORM_INT" -> d.components * d.count * SizeofInt
    [] d.type = "UNIFORM_MATRIX" -> d.components * d.components * d.count * SizeofInt
    [] d.type = "UNIFORM_SAMPLER" ->
         d.components * d.count
           * (IF SizeofPointer > SizeofInt THEN SizeofPointer ELSE SizeofInt)

\* The bytes of one element of the cached value, as the typed setters pass it.
ElementSize(type) == IF type = "UNIFORM_SAMPLER" THEN SizeofPointer ELSE SizeofFloat

\* The pointer whose low and high halves are the ints lo and hi (both slot
\* numbers): NULL when both are 0, and otherwise the address of no object,
\* kept as a negative number, one for each bit pattern.
IntsAsPointer(lo, hi) == IF lo = 0 /\ hi = 0 THEN 0 ELSE 0 - (lo + MAX_TEXTURES * hi)

\* The cached value after lovrShaderCreate: the zeroes of calloc, the values the
\* program reports (its defaults, zero) and, for a sampler, the slot numbers
\* written as ints and read back as pointers, two ints to a pointer.
InitialValue(d, textureSlot) ==
  LET n == UniformSize(d) \div ElementSize(d.type)
      IntAt(k) == IF k < d.count THEN textureSlot + k ELSE 0
  IN IF d.type = "UNIFORM_SAMPLER"
       THEN [j \in 1 .. n |-> IntsAsPointer(IntAt(2 * (j - 1)), IntAt(2 * (j - 1) + 1))]
       ELSE [j \in 1 .. n |-> 0]

\* The uniform introspection loop of lovrShaderCreate from declaration i on;
\* garbage is the content of the never assigned `dirty` of the local Uniform.
RECURSIVE Introspect(_, _, _, _, _, _)
Introspect(w, shader, decls, i, textureSlot, garbage) ==
  IF i > Len(decls) THEN w
  ELSE LET d == decls[i]
           sampler == d.type = "UNIFORM_SAMPLER"
           uniform == [type |-> d.type, components |-> d.components,
                       count |-> d.count, location |-> d.location,
                       baseTextureSlot |-> IF sampler THEN textureSlot ELSE -1,
                       size |-> UniformSize(d),
                       value |-> InitialValue(d, textureSlot),
                       dirty |-> garbage[d.name]]
           w1 == IF sampler
                   THEN Call(w, <<"glUniform1iv", d.name,
                                  [k \in 1 .. d.count |-> textureSlot + k - 1]>>)
                   ELSE w
           w2 == [w1 EXCEPT !.shaders[shader].uniforms = (d.name :> uniform) @@ @,
                            !.shaders[shader].order = Append(@, d.name)]
       IN IF d.location = -1
            THEN Introspect(w, shader, decls, i + 1, textureSlot, garbage)
            ELSE Introspect(w2, shader, decls, i + 1,
                            textureSlot + (IF sampler THEN d.count ELSE 0), garbage)

\* The program linkShaders returns is named after the shader.
\* lovrShaderCreate that starts the texture slots at 1.
lovrShaderCreate_SlotsFromOne(w, shader, program, garbage) ==
  LET w1 == lovrGpuUseProgram(
              [w EXCEPT !.shaders[shader] = [NoShader EXCEPT !.program = shader]], shader)
      w2 == Call(Call(Call(w1, <<"glVertexAttrib4fv", "LOVR_SHADER_VERTEX_COLOR">>),
                      <<"glVertexAttribI4iv", "LOVR_SHADER_BONES">>),
                 <<"glVertexAttrib4fv", "LOVR_SHADER_BONE_WEIGHTS">>)
      w3 == Introspect(w2, shader, program.decls, 1, 1, garbage)
      blocks == [i \in 1 .. program.blockCount |->
                   [index |-> i - 1, binding |-> i, source |-> 0]]
      w4 == [w3 EXCEPT !.shaders[shader].blocks = blocks,
                       !.shaders[shader].attributes = program.attributes,
                       !.calls = @ \o [i \in 1 .. program.blockCount |->
                                         <<"glUniformBlockBinding", i - 1, i>>]]
  IN w4

lovrShaderCreate(w, shader, program, garbage) ==
  LET w1 == lovrGpuUseProgram(
              [w EXCEPT !.shaders[shader] = [NoShader EXCEPT !.program = shader]], shader)
      w2 == Call(Call(Call(w1, <<"glVertexAttrib4fv", "LOVR_SHADER_VERTEX_COLOR">>),
                      <<"glVertexAttribI4iv", "LOVR_SHADER_BONES">>),
                 <<"glVertexAttrib4fv", "LOVR_SHADER_BONE_WEIGHTS">>)
      w3 == Introspect(w2, shader, program.decls, 1, 0, garbage)
      blocks == [i \in 1 .. program.blockCount |->
                   [index |-> i - 1, binding |-> i, source |-> 0]]
      w4 == [w3 EXCEPT !.shaders[shader].blocks = blocks,
                       !.shaders[shader].attributes = program.attributes,
                       !.calls = @ \o [i \in 1 .. program.blockCount |->
                                         <<"glUniformBlockBinding", i - 1, i>>]]
  IN w4

\* lovrShaderSetUniform without the comparison with the cached bytes.
lovrShaderSetUniform_NoCompare(w, shader, name, type, data, count, size) ==
  IF name \notin DOMAIN w.shaders[shader].uniforms THEN w
  ELSE LET uniform == w.shaders[shader].uniforms[name]
       IN IF uniform.type # type THEN Throw(w, "Unable to send")
          ELSE IF count * size > uniform.size THEN Throw(w, "Expected at most")
          ELSE [w EXCEPT !.shaders[shader].uniforms[name].value =
                           data \o SubSeq(@, count + 1, Len(@)),
                         !.shaders[shader].uniforms[name].dirty = TRUE]

\* lovrShaderSetUniform that returns early whenever the uniform is clean.
lovrShaderSetUniform_CleanReturns(w, shader, name, type, data, count, size) ==
  IF name \notin DOMAIN w.shaders[shader].uniforms THEN w
  ELSE LET uniform == w.shaders[shader].uniforms[name]
       IN IF uniform.type # type THEN Throw(w, "Unable to send")
          ELSE IF count * size > uniform.size THEN Throw(w, "Expected at most")
          ELSE IF ~uniform.dirty THEN w
          ELSE [w EXCEPT !.shaders[shader].uniforms[name].value =
                           data \o SubSeq(@, count + 1, Len(@)),
                         !.shaders[shader].uniforms[name].dirty = TRUE]

\* lovrShaderSetUniform that marks the uniform dirty before it validates.
lovrShaderSetUniform_DirtyFirst(w, shader, name, type, data, count, size) ==
  IF name \notin DOMAIN w.shaders[shader].uniforms THEN w
  ELSE LET uniform == w.shaders[shader].uniforms[name]
           w1 == [w EXCEPT !.shaders[shader].uniforms[name].dirty = TRUE]
       IN IF uniform.type # type THEN Throw(w1, "Unable to send")
          ELSE IF count * size > uniform.size THEN Throw(w1, "Expected at most")
          ELSE IF ~uniform.dirty /\ SubSeq(uniform.value, 1, count) = data THEN w
          ELSE [w1 EXCEPT !.shaders[shader].uniforms[name].value =
                            data \o SubSeq(@, count + 1, Len(@))]

\* data points to count elements of size bytes each; once the type matches,
\* these are the elements of the cached value, so memcmp and memcpy of
\* count * size bytes compare and copy its first count elements.
lovrShaderSetUniform(w, shader, name, type, data, count, size) ==
  IF name \notin DOMAIN w.shaders[shader].uniforms THEN w
  ELSE LET uniform == w.shaders[shader].uniforms[name]
       IN IF uniform.type # type THEN Throw(w, "Unable to send")
          ELSE IF count * size > uniform.size THEN Throw(w, "Expected at most")
          ELSE IF ~uniform.dirty /\ SubSeq(uniform.value, 1, count) = data THEN w
          ELSE [w EXCEPT !.shaders[shader].uniforms[name].value =
                           data \o SubSeq(@, count + 1, Len(@)),
                         !.shaders[shader].uniforms[name].dirty = TRUE]

lovrShaderSetFloat(w, shader, name, data, count) ==
  lovrShaderSetUniform(w, shader, name, "UNIFORM_FLOAT", data, count, SizeofFloat)

lovrShaderSetInt(w, shader, name, data, count) ==
  lovrShaderSetUniform(w, shader, name, "UNIFORM_INT", data, count, SizeofInt)

lovrShaderSetMatrix(w, shader, name, data, count) ==
  lovrShaderSetUniform(w, shader, name, "UNIFORM_MATRIX", data, count, SizeofFloat)

lovrShaderSetTexture(w, shader, name, data, count) ==
  lovrShaderSetUniform(w, shader, name, "UNIFORM_SAMPLER", data, count, SizeofPointer)

\* The loop of the sampler case of lovrShaderBind, from texture i on.
RECURSIVE BindSamplerTextures(_, _, _)
BindSamplerTextures(w, uniform, i) ==
  IF i >= uniform.count THEN w
  ELSE BindSamplerTextures(
         lovrGpuBindTexture(w, uniform.value[i + 1], uniform.baseTextureSlot + i),
         uniform, i + 1)

\* The body of the uniform loop of lovrShaderBind for one uniform.
BindUniform(w, shader, name) ==
  LET uniform == w.shaders[shader].uniforms[name]
      w1 == [w EXCEPT !.shaders[shader].uniforms[name].dirty = FALSE]
  IN IF w.error # "none" THEN w
     ELSE IF uniform.type # "UNIFORM_SAMPLER" /\ ~uniform.dirty THEN w
     ELSE IF uniform.type = "UNIFORM_SAMPLER" THEN BindSamplerTextures(w1, uniform, 0)
     ELSE Call(w1, <<"glUniform", name, uniform.count, uniform.value>>)

RECURSIVE BindUniforms(_, _, _)
BindUniforms(w, shader, i) ==
  IF i > Len(w.shaders[shader].order) THEN w
  ELSE BindUniforms(BindUniform(w, shader, w.shaders[shader].order[i]), shader, i + 1)

\* The block loop: no block is ever given a source, and a block without one
\* binds buffer 0 to its binding.
RECURSIVE BindBlocks(_, _, _)
BindBlocks(w, shader, i) ==
  IF i > Len(w.shaders[shader].blocks) \/ w.error # "none" THEN w
  ELSE LET block == w.shaders[shader].blocks[i]
       IN BindBlocks(lovrGpuBindUniformBuffer(w, block.source, block.binding),
                     shader, i + 1)

lovrShaderBind(w, shader) == BindBlocks(BindUniforms(w, shader, 1), shader, 1)

\* What an operation on shaders and textures leaves behind.
ShaderStep(w) ==
  /\ state' = w.state
  /\ calls' = w.calls
  /\ shaders' = w.shaders
  /\ texRefs' = w.refs
  /\ images' = w.images
  /\ UNCHANGED <<syncVars, probe, hwCount, changeCount, lastReq, nreq, meshVars, viewVars>>

\* lovrShaderCreate of one of the given linked programs.
ShaderCreateFrom(programs) ==
  \E shader \in {s \in ShaderIds : shaders[s].program = 0}, program \in programs,
     garbage \in [UniformNames -> BOOLEAN] :
    LET w == lovrShaderCreate(World, shader, program, garbage)
    IN /\ ShaderStep(w)
       /\ pending' = {n \in DOMAIN w.shaders[shader].uniforms :
                        w.shaders[shader].uniforms[n].dirty}
       /\ op' = [name |-> "lovrShaderCreate", shader |-> shader, program |-> program]

ShaderCreate == ShaderCreateFrom(Programs)

\* A program with a float, an array of two samplers and a uniform block.
SamplerProgram ==
  [decls |-> << Decl("lovrPointSize", "UNIFORM_FLOAT", 1, 1, 0),
                Decl("tex", "UNIFORM_SAMPLER", 1, 2, 1) >>,
   blockCount |-> 1, attributes |-> ("lovrPosition" :> 0)]

ShaderCreateSamplers == ShaderCreateFrom({SamplerProgram})

\* Programs with several samplers: an array; a sampler, a sampler array
\* without a location and a sampler array; a sampler array, a float and a
\* sampler.
SlotPrograms ==
  { SamplerProgram,
    [decls |-> << Decl("tex", "UNIFORM_SAMPLER", 1, 1, 0),
                  Decl("unused", "UNIFORM_SAMPLER", 1, 2, -1),
                  Decl("v", "UNIFORM_SAMPLER", 1, 2, 1) >>,
     blockCount |-> 0, attributes |-> ("lovrPosition" :> 0)],
    [decls |-> << Decl("m", "UNIFORM_SAMPLER", 1, 2, 0),
                  Decl("lovrPointSize", "UNIFORM_FLOAT", 1, 1, 1),
                  Decl("tex", "UNIFORM_SAMPLER", 1, 1, 2) >>,
     blockCount |-> 0, attributes |-> ("lovrPosition" :> 0)] }

ShaderCreateSlots == ShaderCreateFrom(SlotPrograms)

\* The textures the application holds a reference to.
Held == {t \in TextureIds : texRefs[t] > 0 /\ t # state.defaultTexture}

TextureCreate ==
  /\ Cardinality(Held) < MaxGlTextures
  /\ \E t \in TextureIds : texRefs[t] = 0
  /\ ShaderStep(lovrTextureCreate(World, NextTexture(texRefs)))
  /\ pending' = pending
  /\ op' = [name |-> "lovrTextureCreate", texture |-> NextTexture(texRefs)]

NoUniform == [type |-> "none", size |-> 0, value |-> <<>>, dirty |-> FALSE]

\* One call of a typed setter: setter names it, w is the world it leaves.
ShaderSet(setter, type, size, shader, name, data, count, w) ==
  LET present == name \in DOMAIN shaders[shader].uniforms
      pre == IF present THEN shaders[shader].uniforms[name] ELSE NoUniform
      result == IF ~present THEN "absent"
                ELSE IF w.error # "none" THEN "error" ELSE "ok"
      same == SubSeq(pre.value, 1, count) = data
  IN /\ shaders[shader].program # 0
     /\ ShaderStep(w)
     /\ pending' = IF result = "ok" /\ ~same THEN pending \cup {name} ELSE pending
     /\ op' = [name |-> setter, shader |-> shader, uniform |-> name,
               count |-> count, result |-> result,
               data |-> IF result = "ok" THEN data ELSE <<>>,
               same |-> result = "ok" /\ same,
               typeOk |-> pre.type = type, fits |-> count * size <= pre.size,
               wasDirty |-> pre.dirty,
               kept |-> w.shaders = shaders,
               tailKept |-> present =>
                 \A i \in (count + 1) .. Len(pre.value) :
                   w.shaders[shader].uniforms[name].value[i] = pre.value[i]]

\* The names a setter is tried with: the shader's uniforms and one it has not.
Tried(shader) == DOMAIN shaders[shader].uniforms \cup {"lovrModel"}

\* The element counts a setter is tried with: up to one over the capacity of
\* a uniform of its type, and none or one for any other name.
Counts(shader, name, type, size) ==
  0 .. (IF name \in DOMAIN shaders[shader].uniforms
             /\ shaders[shader].uniforms[name].type = type
          THEN shaders[shader].uniforms[name].size \div size ELSE 0) + 1

\* The arrays a setter is tried with: count elements, at most one of them
\* other than zero (or NULL).
Arrays(count, elements) ==
  {data \in [1 .. count -> elements] : Cardinality({i \in 1 .. count : data[i] # 0}) <= 1}

ShaderSetFloat ==
  \E shader \in ShaderIds : \E name \in Tried(shader) :
    \E count \in Counts(shader, name, "UNIFORM_FLOAT", SizeofFloat) :
      \E data \in Arrays(count, Words) :
      ShaderSet("lovrShaderSetFloat", "UNIFORM_FLOAT", SizeofFloat, shader, name, data,
                count, lovrShaderSetFloat(World, shader, name, data, count))

ShaderSetInt ==
  \E shader \in ShaderIds : \E name \in Tried(shader) :
    \E count \in Counts(shader, name, "UNIFORM_INT", SizeofInt) :
      \E data \in Arrays(count, Words) :
      ShaderSet("lovrShaderSetInt", "UNIFORM_INT", SizeofInt, shader, name, data,
                count, lovrShaderSetInt(World, shader, name, data, count))

ShaderSetMatrix ==
  \E shader \in ShaderIds : \E name \in Tried(shader) :
    \E count \in Counts(shader, name, "UNIFORM_MATRIX", SizeofFloat) :
      \E data \in Arrays(count, Words) :
      ShaderSet("lovrShaderSetMatrix", "UNIFORM_MATRIX", SizeofFloat, shader, name, data,
                count, lovrShaderSetMatrix(World, shader, name, data, count))

ShaderSetTexture ==
  \E shader \in ShaderIds : \E name \in Tried(shader) :
    \E count \in Counts(shader, name, "UNIFORM_SAMPLER", SizeofPointer) :
      \E data \in Arrays(count, {0} \cup Held) :
        ShaderSet("lovrShaderSetTexture", "UNIFORM_SAMPLER", SizeofPointer, shader, name,
                  data, count, lovrShaderSetTexture(World, shader, name, data, count))

Setters ==
  {"lovrShaderSetFloat", "lovrShaderSetInt", "lovrShaderSetMatrix", "lovrShaderSetTexture"}

\* error: the message of the lovrThrow that ended the flush; dirty: the
\* uniforms marked dirty when it began.
ShaderBind ==
  \E shader \in ShaderIds :
    /\ shaders[shader].program # 0
    /\ ShaderStep(lovrShaderBind(World, shader))
    /\ pending' = {}
    /\ op' = [name |-> "lovrShaderBind", shader |-> shader, pending |-> pending,
              error |-> lovrShaderBind(World, shader).error,
              dirty |-> {n \in DOMAIN shaders[shader].uniforms :
                           shaders[shader].uniforms[n].dirty},
              redundant |-> IF op.name \in Setters /\ op.same /\ ~op.wasDirty
                              THEN {op.uniform} ELSE {}]

InitShaderVars ==
  /\ shaders = [s \in ShaderIds |-> NoShader]
  /\ texRefs = [t \in TextureIds |-> 0]
  /\ images = [t \in TextureIds |-> NoImage]
  /\ pending = {}

-----------------------------------------------------------------------------
(* Meshes (part_001) *)

INT_MAX == 2147483647

MeshIds == {1}
DrawModes == {"MESH_TRIANGLES"}

Attribute(name, type, count, offset) ==
  [name |-> name, type |-> type, count |-> count, offset |-> offset]

\* The vertex formats given to lovrMeshCreate: a position of one float, alone
\* or followed by a colour of four bytes.
Formats ==
  { [stride |-> 4, attributes |-> << Attribute("lovrPosition", "ATTR_FLOAT", 1, 0) >>],
    [stride |-> 8, attributes |-> << Attribute("lovrPosition", "ATTR_FLOAT", 1, 0),
                                     Attribute("lovrVertexColor", "ATTR_BYTE", 4, 4) >>] }

NoAttachment == [mesh |-> 0, attributeIndex |-> 0, divisor |-> 0, enabled |-> FALSE]
MeshUsages == {"MESH_STATIC", "MESH_DYNAMIC", "MESH_STREAM"}
VertexWords == {0, 1}

\* A Mesh as calloc leaves it. vertexArray is not a field of the Mesh: it is
\* what the device holds for each attribute of the vertex array object
\* mesh->vao, by the calls made on it so far.
NoMesh ==
  [count |-> 0, stride |-> 0, usage |-> "none", vbo |-> 0, ibo |-> 0, vao |-> 0,
   data |-> <<>>, gpuSize |-> 0, dirtyStart |-> 0, dirtyEnd |-> 0,
   format |-> <<>>, drawMode |-> "none", indexCount |-> 0, indexSize |-> 0,
   indexCapacity |-> 0, mappedIndices |-> FALSE, rangeStart |-> 0, rangeCount |-> 0,
   pose |-> <<>>, attachments |-> <<>>, isAttachment |-> FALSE, ref |-> 0,
   layout |-> [i \in 0 .. (MAX_ATTACHMENTS - 1) |-> NoAttachment],
   vertexArray |-> [i \in 0 .. (MAX_ATTACHMENTS - 1) |-> NoAttachment]]

convertMeshUsage(usage) ==
  CASE usage = "MESH_STATIC" -> "GL_STATIC_DRAW"
    [] usage = "MESH_DYNAMIC" -> "GL_DYNAMIC_DRAW"
    [] usage = "MESH_STREAM" -> "GL_STREAM_DRAW"

\* The least power of two that is at least x.
RECURSIVE PowerOfTwoFrom(_, _)
PowerOfTwoFrom(p, x) == IF p >= x THEN p ELSE PowerOfTwoFrom(2 * p, x)

nextPo2(x) == PowerOfTwoFrom(1, x)

\* lovrAlloc hands the mesh out with one reference, the creator's.
\* mesh->data.raw holds one word per vertex it has room for; calloc zeroes it.
\* glGenBuffers and glGenVertexArrays name the objects after the mesh.
\* The map of attachments gets one entry for each attribute of the format.
lovrMeshCreate(w, mesh, count, format, drawMode, usage) ==
  LET vbo == 2 * mesh - 1
      stride == format.stride
      attachments == [name \in {a.name : a \in Range(format.attributes)} |->
                        [mesh |-> mesh,
                         attributeIndex |->
                           (CHOOSE i \in DOMAIN format.attributes :
                              format.attributes[i].name = name) - 1,
                         divisor |-> 0, enabled |-> TRUE]]
      w1 == [w EXCEPT !.meshes[mesh] =
               [NoMesh EXCEPT !.count = count, !.stride = stride,
                              !.format = format.attributes, !.drawMode = drawMode,
                              !.attachments = attachments, !.ref = 1,
                              !.usage = convertMeshUsage(usage),
                              !.vbo = vbo, !.ibo = 2 * mesh, !.vao = mesh]]
      w2 == Call(Call(w1, <<"glGenBuffers", vbo>>), <<"glGenBuffers", 2 * mesh>>)
      w3 == Call(lovrGpuBindVertexBuffer(w2, vbo),
                 <<"glBufferData", "GL_ARRAY_BUFFER", count * stride, "NULL">>)
      w4 == Call(w3, <<"glGenVertexArrays", mesh>>)
  IN [w4 EXCEPT !.meshes[mesh].gpuSize = count * stride,
                !.meshes[mesh].data = [i \in 1 .. count |-> 0]]

\* lovrMeshMapVertices that takes the range it maps for the dirty range.
lovrMeshMapVertices_ForgetsDirty(w, mesh, start, count, read, write) ==
  IF write
    THEN [w EXCEPT !.meshes[mesh].dirtyStart = start,
                   !.meshes[mesh].dirtyEnd = start + count]
    ELSE w

\* write: the dirty range grows to hold [start, start + count).
lovrMeshMapVertices(w, mesh, start, count, read, write) ==
  IF write
    THEN [w EXCEPT
           !.meshes[mesh].dirtyStart = IF @ < start THEN @ ELSE start,
           !.meshes[mesh].dirtyEnd = IF @ > start + count THEN @ ELSE start + count]
    ELSE w

\* mesh->usage holds the OpenGL usage and is compared with MESH_STREAM.
lovrMeshUnmapVertices(w, mesh) ==
  LET m == w.meshes[mesh]
      w1 == lovrGpuBindVertexBuffer(w, m.vbo)
      w2 == IF m.usage = "MESH_STREAM"
              THEN Call([w1 EXCEPT !.meshes[mesh].gpuSize = m.count * m.stride],
                        <<"glBufferData", "GL_ARRAY_BUFFER", m.count * m.stride, m.data>>)
              ELSE Call(w1, <<"glBufferSubData", "GL_ARRAY_BUFFER",
                              m.dirtyStart * m.stride,
                              (m.dirtyEnd - m.dirtyStart) * m.stride>>)
  IN IF m.dirtyEnd = 0 THEN w
     ELSE [w2 EXCEPT !.meshes[mesh].dirtyStart = INT_MAX,
                     !.meshes[mesh].dirtyEnd = 0]

\* realloc keeps the vertices that fit its count * stride bytes; the bytes it
\* adds are whatever the allocator hands out: fresh.
Realloc(data, count, fresh) ==
  [i \in 1 .. count |-> IF i <= Len(data) THEN data[i] ELSE fresh[i]]

\* lovrMeshResize that also grows a mesh of exactly the count asked for.
lovrMeshResize_GrowsWhenEqual(w, mesh, count, fresh) ==
  IF w.meshes[mesh].count <= count
    THEN LET m == w.meshes[mesh]
             w1 == lovrGpuBindVertexBuffer([w EXCEPT !.meshes[mesh].count = nextPo2(count)], m.vbo)
             data == Realloc(m.data, count, fresh)
         IN Call([w1 EXCEPT !.meshes[mesh].data = data,
                            !.meshes[mesh].gpuSize = count * m.stride],
                 <<"glBufferData", "GL_ARRAY_BUFFER", count * m.stride, data>>)
    ELSE w

lovrMeshResize(w, mesh, count, fresh) ==
  IF w.meshes[mesh].count < count
    THEN LET m == w.meshes[mesh]
             w1 == lovrGpuBindVertexBuffer([w EXCEPT !.meshes[mesh].count = nextPo2(count)], m.vbo)
             data == Realloc(m.data, count, fresh)
         IN Call([w1 EXCEPT !.meshes[mesh].data = data,
                            !.meshes[mesh].gpuSize = count * m.stride],
                 <<"glBufferData", "GL_ARRAY_BUFFER", count * m.stride, data>>)
    ELSE w

lovrMeshGetVertexCount(w, mesh) == w.meshes[mesh].count

\* What an operation on meshes leaves behind.
MeshStep(w) ==
  /\ state' = w.state
  /\ calls' = w.calls
  /\ meshes' = w.meshes
  /\ UNCHANGED <<syncVars, probe, hwCount, changeCount, lastReq, nreq, shaderVars,
                 viewVars>>

Created == {mesh \in MeshIds : meshes[mesh].vbo # 0}

MeshCreate ==
  \E mesh \in MeshIds \ Created, count \in 0 .. MaxVertices, format \in Formats,
     drawMode \in DrawModes, usage \in MeshUsages :
    /\ MeshStep(lovrMeshCreate(World, mesh, count, format, drawMode, usage))
    /\ op' = [name |-> "lovrMeshCreate", mesh |-> mesh, count |-> count]

\* kept: the operation left the mesh and the state cache as they were;
\* preserved: every vertex of the old store is in the new one, unchanged.
MeshResize ==
  \E mesh \in Created, count \in 0 .. (MaxVertices + 1) :
    \E fresh \in [(Len(meshes[mesh].data) + 1) .. count -> VertexWords] :
      LET w == lovrMeshResize(World, mesh, count, fresh)
      IN /\ MeshStep(w)
         /\ op' = [name |-> "lovrMeshResize", mesh |-> mesh, count |-> count,
                   oldCount |-> meshes[mesh].count,
                   kept |-> w.meshes = meshes /\ w.state = state,
                   preserved |->
                     \A i \in 1 .. Len(meshes[mesh].data) :
                       /\ i <= Len(w.meshes[mesh].data)
                       /\ w.meshes[mesh].data[i] = meshes[mesh].data[i]]

\* The caller maps vertices inside the store and, when it maps to write,
\* stores word in each of them through the pointer returned.
MapVertices(ids, words) ==
  \E mesh \in ids, read \in BOOLEAN, write \in BOOLEAN :
  \E start \in 0 .. Len(meshes[mesh].data) :
  \E count \in 0 .. (Len(meshes[mesh].data) - start) :
  \E word \in IF write THEN words ELSE {0} :
    LET w == lovrMeshMapVertices(World, mesh, start, count, read, write)
        data == [i \in 1 .. Len(meshes[mesh].data) |->
                   IF write /\ start < i /\ i <= start + count
                     THEN word ELSE meshes[mesh].data[i]]
    IN /\ MeshStep([w EXCEPT !.meshes[mesh].data = data])
       /\ op' = [name |-> "lovrMeshMapVertices", mesh |-> mesh, start |-> start,
                 count |-> count, write |-> write]

MeshMapVertices == MapVertices(Created, VertexWords)

MeshUnmapVertices ==
  \E mesh \in Created :
    /\ MeshStep(lovrMeshUnmapVertices(World, mesh))
    /\ op' = [name |-> "lovrMeshUnmapVertices", mesh |-> mesh]

InitMeshVars == meshes = [mesh \in MeshIds |-> NoMesh]

-----------------------------------------------------------------------------
(* lovrGpuDraw (part_001): the pipeline toggles *)

BlendModes ==
  {"BLEND_ALPHA", "BLEND_ADD", "BLEND_SUBTRACT", "BLEND_MULTIPLY", "BLEND_LIGHTEN",
   "BLEND_DARKEN", "BLEND_SCREEN", "BLEND_REPLACE"}

\* The blend equation and the four factors after srcRGB of each blend mode.
BlendEquation(mode) ==
  CASE mode = "BLEND_SUBTRACT" -> "GL_FUNC_REVERSE_SUBTRACT"
    [] mode = "BLEND_LIGHTEN" -> "GL_MAX"
    [] mode = "BLEND_DARKEN" -> "GL_MIN"
    [] OTHER -> "GL_FUNC_ADD"

BlendFactors(mode) ==
  CASE mode = "BLEND_ALPHA" -> <<"GL_ONE_MINUS_SRC_ALPHA", "GL_ONE", "GL_ONE_MINUS_SRC_ALPHA">>
    [] mode \in {"BLEND_ADD", "BLEND_SUBTRACT"} -> <<"GL_ONE", "GL_ZERO", "GL_ONE">>
    [] mode = "BLEND_MULTIPLY" -> <<"GL_ZERO", "GL_DST_COLOR", "GL_ZERO">>
    [] mode = "BLEND_SCREEN" -> <<"GL_ONE_MINUS_SRC_COLOR", "GL_ONE", "GL_ONE_MINUS_SRC_COLOR">>
    [] mode \in {"BLEND_LIGHTEN", "BLEND_DARKEN", "BLEND_REPLACE"} ->
         <<"GL_ZERO", "GL_ONE", "GL_ZERO">>

\* The calls of the switch on state.blendMode; no case, no call.
BlendCalls(w, mode, alphaMode) ==
  LET srcRGB == IF mode = "BLEND_MULTIPLY" THEN "GL_DST_COLOR"
                ELSE IF alphaMode = "BLEND_ALPHA_MULTIPLY" THEN "GL_SRC_ALPHA"
                ELSE "GL_ONE"
  IN IF mode \in BlendModes
       THEN Call(Call(w, <<"glBlendEquation", BlendEquation(mode)>>),
                 <<"glBlendFuncSeparate", srcRGB>> \o BlendFactors(mode))
       ELSE w

\* The blend mode applied at every draw, whatever the cache holds.
DrawBlendMode_NoCompare(w, pipeline) ==
  BlendCalls([w EXCEPT !.state.blendMode = pipeline.blendMode,
                       !.state.blendAlphaMode = pipeline.blendAlphaMode],
             pipeline.blendMode, pipeline.blendAlphaMode)

DrawBlendMode(w, pipeline) ==
  IF w.state.blendMode # pipeline.blendMode
       \/ w.state.blendAlphaMode # pipeline.blendAlphaMode
    THEN BlendCalls([w EXCEPT !.state.blendMode = pipeline.blendMode,
                              !.state.blendAlphaMode = pipeline.blendAlphaMode],
                    pipeline.blendMode, pipeline.blendAlphaMode)
    ELSE w

DrawCulling(w, pipeline) ==
  IF w.state.culling # pipeline.culling
    THEN Call([w EXCEPT !.state.culling = pipeline.culling],
              <<IF pipeline.culling THEN "glEnable" ELSE "glDisable", "GL_CULL_FACE">>)
    ELSE w

convertCompareMode(mode) ==
  CASE mode = "COMPARE_NONE" -> "GL_ALWAYS"
    [] mode = "COMPARE_EQUAL" -> "GL_EQUAL"
    [] mode = "COMPARE_NEQUAL" -> "GL_NOTEQUAL"
    [] mode = "COMPARE_LESS" -> "GL_LESS"
    [] mode = "COMPARE_LEQUAL" -> "GL_LEQUAL"
    [] mode = "COMPARE_GREATER" -> "GL_GREATER"
    [] mode = "COMPARE_GEQUAL" -> "GL_GEQUAL"

DrawDepthTest(w, pipeline) ==
  IF w.state.depthTest # pipeline.depthTest
    THEN LET w1 == [w EXCEPT !.state.depthTest = pipeline.depthTest]
         IN IF pipeline.depthTest # "COMPARE_NONE"
              THEN Call(IF ~w1.state.depthEnabled
                          THEN Call([w1 EXCEPT !.state.depthEnabled = TRUE],
                                    <<"glEnable", "GL_DEPTH_TEST">>)
                          ELSE w1,
                        <<"glDepthFunc", convertCompareMode(pipeline.depthTest)>>)
              ELSE IF w1.state.depthEnabled
                THEN Call([w1 EXCEPT !.state.depthEnabled = FALSE],
                          <<"glDisable", "GL_DEPTH_TEST">>)
                ELSE w1
    ELSE w

DrawDepthWrite(w, pipeline) ==
  IF w.state.depthWrite # pipeline.depthWrite
    THEN Call([w EXCEPT !.state.depthWrite = pipeline.depthWrite],
              <<"glDepthMask", IF pipeline.depthWrite THEN "GL_TRUE" ELSE "GL_FALSE">>)
    ELSE w

DrawLineWidth(w, pipeline) ==
  IF w.state.lineWidth # pipeline.lineWidth
    THEN Call([w EXCEPT !.state.lineWidth = pipeline.lineWidth],
              <<"glLineWidth", pipeline.lineWidth>>)
    ELSE w

\* The stencil test keeps a fragment when the stored value compares to the
\* reference as asked, so the mode given to glStencilFunc is the mirrored one.
StencilFunc(mode) ==
  CASE mode = "COMPARE_EQUAL" -> "GL_EQUAL"
    [] mode = "COMPARE_NEQUAL" -> "GL_NOTEQUAL"
    [] mode = "COMPARE_LESS" -> "GL_GREATER"
    [] mode = "COMPARE_LEQUAL" -> "GL_GEQUAL"
    [] mode = "COMPARE_GREATER" -> "GL_LESS"
    [] mode = "COMPARE_GEQUAL" -> "GL_LEQUAL"
    [] OTHER -> "GL_ALWAYS"

DrawStencilMode(w, pipeline) ==
  IF ~w.state.stencilWriting
       /\ (w.state.stencilMode # pipeline.stencilMode
             \/ w.state.stencilValue # pipeline.stencilValue)
    THEN LET w1 == [w EXCEPT !.state.stencilMode = pipeline.stencilMode,
                             !.state.stencilValue = pipeline.stencilValue]
         IN IF pipeline.stencilMode # "COMPARE_NONE"
              THEN Call(Call(IF ~w1.state.stencilEnabled
                               THEN Call([w1 EXCEPT !.state.stencilEnabled = TRUE],
                                         <<"glEnable", "GL_STENCIL_TEST">>)
                               ELSE w1,
                             <<"glStencilFunc", StencilFunc(pipeline.stencilMode),
                               pipeline.stencilValue, 255>>),
                        <<"glStencilOp", "GL_KEEP", "GL_KEEP", "GL_KEEP">>)
              ELSE IF w1.state.stencilEnabled
                THEN Call([w1 EXCEPT !.state.stencilEnabled = FALSE],
                          <<"glDisable", "GL_STENCIL_TEST">>)
                ELSE w1
    ELSE w

DrawWinding(w, pipeline) ==
  IF w.state.winding # pipeline.winding
    THEN Call([w EXCEPT !.state.winding = pipeline.winding],
              <<"glFrontFace",
                IF pipeline.winding = "WINDING_CLOCKWISE" THEN "GL_CW" ELSE "GL_CCW">>)
    ELSE w

DrawWireframe(w, pipeline) ==
  IF w.state.wireframe # pipeline.wireframe
    THEN Call([w EXCEPT !.state.wireframe = pipeline.wireframe],
              <<"glPolygonMode", "GL_FRONT_AND_BACK",
                IF pipeline.wireframe THEN "GL_LINE" ELSE "GL_FILL">>)
    ELSE w

\* Lines 501-632: every toggle of the pipeline against the cache, in order.
\* Each toggle starts from the world the toggle before it left; the worlds are
\* bound as values, so that each is computed once.
DrawPipeline(w, pipeline) ==
  LET s1 == {DrawBlendMode(w0, pipeline) : w0 \in {w}}
      s2 == {DrawCulling(w1, pipeline) : w1 \in s1}
      s3 == {DrawDepthTest(w2, pipeline) : w2 \in s2}
      s4 == {DrawDepthWrite(w3, pipeline) : w3 \in s3}
      s5 == {DrawLineWidth(w4, pipeline) : w4 \in s4}
      s6 == {DrawStencilMode(w5, pipeline) : w5 \in s5}
      s7 == {DrawWinding(w6, pipeline) : w6 \in s6}
      s8 == {DrawWireframe(w7, pipeline) : w7 \in s7}
  IN CHOOSE w8 \in s8 : TRUE

-----------------------------------------------------------------------------
(* lovrGpuDraw (part_001): the uniforms of a draw *)

MAX_BONES == 48

\* A step of an operation that a lovrThrow has ended does not run.
Guard(w, next) == IF w.error # "none" THEN w ELSE next

\* mat4 of core/maf.h: 16 floats, column after column.
Identity == <<1, 0, 0, 0, 0, 1, 0, 0, 0, 0, 1, 0, 0, 0, 0, 1>>
Identity3 == <<1, 0, 0, 0, 1, 0, 0, 0, 1>>

Mat(m, r, c) == m[4 * c + r + 1]

mat4_multiply(m, n) ==
  [i \in 1 .. 16 |->
     LET r == (i - 1) % 4
         c == (i - 1) \div 4
     IN Mat(m, r, 0) * Mat(n, 0, c) + Mat(m, r, 1) * Mat(n, 1, c)
          + Mat(m, r, 2) * Mat(n, 2, c) + Mat(m, r, 3) * Mat(n, 3, c)]

mat4_transpose(m) == [i \in 1 .. 16 |-> Mat(m, (i - 1) \div 4, (i - 1) % 4)]

\* The transforms drawn have entries 1, -1 and 0 with at most one entry in a
\* row and in a column: the inverse of such a matrix is its transpose, unless a
\* row of zeros makes it singular, and then mat4_invert fails.
Invertible(m) == mat4_multiply(m, mat4_transpose(m)) = Identity

mat4_invert(m) == mat4_transpose(m)

\* The upper left 3x3 of each of the two matrices of modelView.
NormalMatrices(modelView) ==
  LET inv(m) == IF Invertible(modelView[1]) /\ Invertible(modelView[2])
                  THEN mat4_transpose(mat4_invert(m)) ELSE Identity
      three(m) == <<m[1], m[2], m[3], m[5], m[6], m[7], m[9], m[10], m[11]>>
  IN three(inv(modelView[1])) \o three(inv(modelView[2]))

\* Lines 634-664.
DrawTransform(w, command) ==
  LET shader == command.shader
      camera == command.camera
      modelView == <<mat4_multiply(camera.viewMatrix[1], command.transform),
                     mat4_multiply(camera.viewMatrix[2], command.transform)>>
      w1 == lovrShaderSetMatrix(w, shader, "lovrModel", command.transform, 16)
      w2 == Guard(w1, lovrShaderSetMatrix(w1, shader, "lovrViews",
                        camera.viewMatrix[1] \o camera.viewMatrix[2], 32))
      w3 == Guard(w2, lovrShaderSetMatrix(w2, shader, "lovrProjections",
                        camera.projection[1] \o camera.projection[2], 32))
      w4 == Guard(w3, lovrShaderSetMatrix(w3, shader, "lovrTransforms",
                        modelView[1] \o modelView[2], 32))
  IN IF "lovrNormalMatrices" \in DOMAIN w.shaders[shader].uniforms
       THEN Guard(w4, lovrShaderSetMatrix(w4, shader, "lovrNormalMatrices",
                        NormalMatrices(modelView), 18))
       ELSE w4

\* Lines 666-674: a mesh without a pose is drawn with the identity.
DrawPose(w, command) ==
  LET pose == w.meshes[command.mesh].pose
  IN IF pose # <<>>
       THEN lovrShaderSetMatrix(w, command.shader, "lovrPose", pose, MAX_BONES * 16)
       ELSE lovrShaderSetMatrix(w, command.shader, "lovrPose", Identity, 16)

\* Colour components are bytes out of 255; lovrMathGammaToLinear is the sRGB
\* decoding curve, here at the components the model draws.
lovrMathGammaToLinear(x) ==
  CASE x = 0 -> 0
    [] x = 128 -> 55
    [] x = 255 -> 255

gammaCorrectColor(w, color) ==
  IF w.state.srgb
    THEN <<lovrMathGammaToLinear(color[1]), lovrMathGammaToLinear(color[2]),
           lovrMathGammaToLinear(color[3]), color[4]>>
    ELSE color

\* The uniform names of the material properties, by property index.
lovrShaderScalarUniforms == <<"lovrMetalness", "lovrRoughness">>
lovrShaderColorUniforms == <<"lovrDiffuseColor", "lovrEmissiveColor">>
lovrShaderTextureUniforms ==
  <<"lovrDiffuseTexture", "lovrEmissiveTexture", "lovrMetalnessTexture",
    "lovrRoughnessTexture", "lovrOcclusionTexture", "lovrNormalTexture",
    "lovrEnvironmentTexture">>

\* The three loops of lines 686-701, each from property i on.
RECURSIVE MaterialScalars(_, _, _)
MaterialScalars(w, command, i) ==
  IF i > Len(lovrShaderScalarUniforms) \/ w.error # "none" THEN w
  ELSE MaterialScalars(
         lovrShaderSetFloat(w, command.shader, lovrShaderScalarUniforms[i],
                            <<command.material.scalars[i]>>, 1),
         command, i + 1)

RECURSIVE MaterialColors(_, _, _)
MaterialColors(w, command, i) ==
  IF i > Len(lovrShaderColorUniforms) \/ w.error # "none" THEN w
  ELSE MaterialColors(
         lovrShaderSetFloat(w, command.shader, lovrShaderColorUniforms[i],
                            gammaCorrectColor(w, command.material.colors[i]), 4),
         command, i + 1)

RECURSIVE MaterialTextures(_, _, _)
MaterialTextures(w, command, i) ==
  IF i > Len(lovrShaderTextureUniforms) \/ w.error # "none" THEN w
  ELSE MaterialTextures(
         lovrShaderSetTexture(w, command.shader, lovrShaderTextureUniforms[i],
                              <<command.material.textures[i]>>, 1),
         command, i + 1)

\* Lines 676-703.
DrawMaterial(w, command) ==
  LET shader == command.shader
      pipeline == command.pipeline
      w1 == lovrShaderSetFloat(w, shader, "lovrPointSize", <<pipeline.pointSize>>, 1)
      w2 == Guard(w1, lovrShaderSetFloat(w1, shader, "lovrColor",
                                         gammaCorrectColor(w1, pipeline.color), 4))
      w3 == MaterialTextures(MaterialColors(MaterialScalars(w2, command, 1), command, 1),
                             command, 1)
  IN Guard(w3, lovrShaderSetMatrix(w3, shader, "lovrMaterialTransform",
                                   command.material.transform, 9))

-----------------------------------------------------------------------------
(* lovrGpuDraw (part_001): canvases, the mesh layout and the draw calls *)

\* The Canvas objects, each a Texture as well: the names lovrCanvasCreate gave
\* to its framebuffers, its flags and its size.
CanvasIds == {MaxGlTextures + 1}

\* Two more canvases, A and B, of different sizes, neither multisampled nor
\* mipmapped: the targets of the draws to several canvases.
CanvasA == MaxGlTextures + 2
CanvasB == MaxGlTextures + 3

Canvases ==
  [c \in CanvasIds \cup {CanvasA, CanvasB} |->
     IF c \in CanvasIds
       THEN [framebuffer |-> 1, resolveFramebuffer |-> 2, msaa |-> 4, mipmaps |-> TRUE,
             width |-> 1, height |-> 1]
     ELSE IF c = CanvasA
       THEN [framebuffer |-> 3, resolveFramebuffer |-> 0, msaa |-> 0, mipmaps |-> FALSE,
             width |-> 1, height |-> 1]
       ELSE [framebuffer |-> 4, resolveFramebuffer |-> 0, msaa |-> 0, mipmaps |-> FALSE,
             width |-> 2, height |-> 2]]

FramebufferStatuses ==
  {"GL_FRAMEBUFFER_COMPLETE", "GL_FRAMEBUFFER_INCOMPLETE_DIMENSIONS",
   "GL_FRAMEBUFFER_UNSUPPORTED"}

lovrCanvasResolve(w, canvas) ==
  LET c == Canvases[canvas]
      w1 == IF c.msaa > 0
              THEN Call(Call(lovrGpuBindFramebuffer(
                     Call(w, <<"glBindFramebuffer", "GL_READ_FRAMEBUFFER", c.framebuffer>>),
                     c.resolveFramebuffer),
                     <<"glBlitFramebuffer", c.width, c.height>>),
                     <<"glBindFramebuffer", "GL_READ_FRAMEBUFFER", 0>>)
              ELSE w
  IN IF c.mipmaps
       THEN LET w2 == lovrGpuBindTexture(w1, canvas, 0)
            IN Guard(w2, Call(w2, <<"glGenerateMipmap", canvas>>))
       ELSE w1

\* Lines 705-732; status is what glCheckFramebufferStatus answers.
DrawCanvas(w, command, status) ==
  LET pipeline == command.pipeline
      canvas == IF pipeline.canvasCount > 0 THEN pipeline.canvas
                ELSE <<command.camera.canvas>>
      canvasCount == IF pipeline.canvasCount > 0 THEN pipeline.canvasCount
                     ELSE IF command.camera.canvas # 0 THEN 1 ELSE 0
      w1 == IF w.state.canvasCount > 0
              THEN lovrCanvasResolve(w, w.state.canvas[0]) ELSE w
      w2 == [w1 EXCEPT !.state.canvasCount = canvasCount]
      w3 == lovrGpuBindFramebuffer(
              [w2 EXCEPT !.state.canvas =
                 [i \in DOMAIN @ |-> IF i < canvasCount THEN canvas[i + 1] ELSE @[i]]],
              Canvases[canvas[1]].framebuffer)
      w4 == Call([w3 EXCEPT !.calls = @ \o
                    [i \in 1 .. canvasCount |->
                       <<"glFramebufferTexture2D", i - 1, canvas[i]>>]],
                 <<"glDrawBuffers", canvasCount>>)
  IN IF canvasCount # w.state.canvasCount
          \/ \E i \in 0 .. (canvasCount - 1) : w.state.canvas[i] # canvas[i + 1]
       THEN Guard(w1,
              IF canvasCount > 0
                THEN IF status = "GL_FRAMEBUFFER_INCOMPLETE_DIMENSIONS"
                       THEN Throw(w4, "All multicanvas canvases must have the same dimensions")
                     ELSE IF status # "GL_FRAMEBUFFER_COMPLETE"
                       THEN Throw(w4, "Unable to bind framebuffer")
                     ELSE w4
                ELSE lovrGpuBindFramebuffer(w2, 0))
       ELSE w

lovrMeshUnmapIndices(w, mesh) ==
  LET m == w.meshes[mesh]
  IN IF ~m.mappedIndices THEN w
     ELSE Call(lovrGpuBindIndexBuffer([w EXCEPT !.meshes[mesh].mappedIndices = FALSE],
                                      m.ibo),
               <<"glBufferSubData", "GL_ELEMENT_ARRAY_BUFFER", 0,
                 m.indexCount * m.indexSize>>)

lovrMeshReadIndices(w, mesh) ==
  IF w.meshes[mesh].indexCount = 0 THEN w ELSE lovrMeshUnmapIndices(w, mesh)

lovrMeshWriteIndices(w, mesh, count, size) ==
  LET w1 == [lovrMeshUnmapIndices(w, mesh) EXCEPT !.meshes[mesh].indexSize = size,
                                                  !.meshes[mesh].indexCount = count]
      m == w1.meshes[mesh]
      w2 == [lovrGpuBindIndexBuffer(lovrGpuBindVertexArray(w1, m.vao), m.ibo)
               EXCEPT !.meshes[mesh].mappedIndices = TRUE]
  IN IF count = 0 THEN w1
     ELSE IF m.indexCapacity < size * count
       THEN Call([w2 EXCEPT !.meshes[mesh].indexCapacity = nextPo2(size * count)],
                 <<"glBufferData", "GL_ELEMENT_ARRAY_BUFFER", nextPo2(size * count),
                   "NULL", m.usage>>)
       ELSE w2

lovrShaderGetAttributeId(w, shader, name) ==
  IF name \in DOMAIN w.shaders[shader].attributes
    THEN w.shaders[shader].attributes[name] ELSE -1

\* The attachments the shader has a location for.
Located(w, mesh, shader) ==
  {key \in DOMAIN w.meshes[mesh].attachments :
     lovrShaderGetAttributeId(w, shader, key) >= 0}

\* The first loop of lovrMeshBind, over the attachments in keys: the map is
\* walked in the order of its hash table.
RECURSIVE UnmapAttachments(_, _, _)
UnmapAttachments(w, mesh, keys) ==
  IF keys = {} THEN w
  ELSE LET key == CHOOSE k \in keys : TRUE
           other == w.meshes[mesh].attachments[key].mesh
       IN UnmapAttachments(lovrMeshUnmapIndices(lovrMeshUnmapVertices(w, other), other),
                           mesh, keys \ {key})

\* The second loop of lovrMeshBind from location i on. The attachments are
\* compared field by field: where memcmp differs on the padding alone, no
\* branch of the body is taken.
\* The calls of lovrMeshBind on attribute i of the vertex array of the mesh.
EnableVertexAttribArray(w, mesh, i) ==
  Call([w EXCEPT !.meshes[mesh].vertexArray[i].enabled = TRUE],
       <<"glEnableVertexAttribArray", i>>)

DisableVertexAttribArray(w, mesh, i) ==
  Call([w EXCEPT !.meshes[mesh].vertexArray[i].enabled = FALSE],
       <<"glDisableVertexAttribArray", i>>)

VertexAttribDivisor(w, mesh, i, divisor) ==
  Call([w EXCEPT !.meshes[mesh].vertexArray[i].divisor = divisor],
       <<"glVertexAttribDivisor", i, divisor>>)

\* glVertexAttribPointer or glVertexAttribIPointer, by the type of the
\* attribute, on the vertex buffer of the source mesh.
\* An attribute index past the attributes of the format reads an entry of
\* format->attributes that was never filled in: zeroes.
VertexAttribPointer(w, mesh, i, current) ==
  LET format == w.meshes[current.mesh].format
      attribute == IF current.attributeIndex + 1 \in DOMAIN format
                     THEN format[current.attributeIndex + 1]
                     ELSE Attribute("", "ATTR_FLOAT", 0, 0)
      w1 == lovrGpuBindVertexBuffer(w, w.meshes[current.mesh].vbo)
  IN Call([w1 EXCEPT !.meshes[mesh].vertexArray[i].mesh = current.mesh,
                     !.meshes[mesh].vertexArray[i].attributeIndex = current.attributeIndex],
          <<IF attribute.type = "ATTR_INT" THEN "glVertexAttribIPointer"
            ELSE "glVertexAttribPointer",
            i, attribute.count, attribute.type,
            w.meshes[current.mesh].stride, attribute.offset>>)

RECURSIVE BindLayout(_, _, _, _)
BindLayout(w, mesh, layout, i) ==
  IF i >= MAX_ATTACHMENTS \/ w.error # "none" THEN w
  ELSE LET previous == w.meshes[mesh].layout[i]
           current == layout[i]
           w1 == IF previous.enabled # current.enabled
                   THEN EnableVertexAttribArray(w, mesh, i) ELSE w
           w2 == IF previous.divisor # current.divisor
                   THEN VertexAttribDivisor(w1, mesh, i, current.divisor) ELSE w1
           w3 == IF previous.mesh # current.mesh
                      \/ previous.attributeIndex # current.attributeIndex
                   THEN IF current.mesh = 0 THEN Throw(w2, "NULL mesh of an attachment")
                        ELSE VertexAttribPointer(w2, mesh, i, current)
                   ELSE w2
       IN IF previous = current THEN BindLayout(w, mesh, layout, i + 1)
          ELSE IF previous.enabled # current.enabled /\ ~current.enabled
            THEN BindLayout(DisableVertexAttribArray(
                              [w EXCEPT !.meshes[mesh].layout[i] = current], mesh, i),
                            mesh, layout, i + 1)
          ELSE BindLayout(Guard(w3, [w3 EXCEPT !.meshes[mesh].layout[i] = current]),
                          mesh, layout, i + 1)

\* lovrMeshBind that compares with an empty layout, not with the recorded one.
lovrMeshBind_ForgetsLayout(w, mesh, shader) ==
  LET m == w.meshes[mesh]
      keys == Located(w, mesh, shader)
      layout == [i \in 0 .. (MAX_ATTACHMENTS - 1) |->
                   IF \E key \in keys : lovrShaderGetAttributeId(w, shader, key) = i
                     THEN m.attachments[CHOOSE key \in keys :
                                          lovrShaderGetAttributeId(w, shader, key) = i]
                     ELSE NoAttachment]
      w1 == lovrMeshUnmapIndices(
              lovrMeshUnmapVertices(lovrGpuBindVertexArray(w, m.vao), mesh), mesh)
      w2 == IF m.indexCount > 0 THEN lovrGpuBindIndexBuffer(w1, m.ibo) ELSE w1
      w3 == UnmapAttachments(w2, mesh, keys)
  IN BindLayout([w3 EXCEPT !.meshes[mesh].layout = NoMesh.layout], mesh, layout, 0)

lovrMeshBind(w, mesh, shader) ==
  LET m == w.meshes[mesh]
      keys == Located(w, mesh, shader)
      layout == [i \in 0 .. (MAX_ATTACHMENTS - 1) |->
                   IF \E key \in keys : lovrShaderGetAttributeId(w, shader, key) = i
                     THEN m.attachments[CHOOSE key \in keys :
                                          lovrShaderGetAttributeId(w, shader, key) = i]
                     ELSE NoAttachment]
      w1 == lovrMeshUnmapIndices(
              lovrMeshUnmapVertices(lovrGpuBindVertexArray(w, m.vao), mesh), mesh)
      w2 == IF m.indexCount > 0 THEN lovrGpuBindIndexBuffer(w1, m.ibo) ELSE w1
  IN BindLayout(UnmapAttachments(w2, mesh, keys), mesh, layout, 0)

convertMeshDrawMode(mode) ==
  CASE mode = "MESH_POINTS" -> "GL_POINTS"
    [] mode = "MESH_LINES" -> "GL_LINES"
    [] mode = "MESH_LINE_STRIP" -> "GL_LINE_STRIP"
    [] mode = "MESH_LINE_LOOP" -> "GL_LINE_LOOP"
    [] mode = "MESH_TRIANGLE_STRIP" -> "GL_TRIANGLE_STRIP"
    [] mode = "MESH_TRIANGLES" -> "GL_TRIANGLES"
    [] mode = "MESH_TRIANGLE_FAN" -> "GL_TRIANGLE_FAN"

\* Lines 759-781: the draw call of one pass.
DrawCall(w, command) ==
  LET m == w.meshes[command.mesh]
      glDrawMode == convertMeshDrawMode(m.drawMode)
      instanced == command.instances > 1
  IN IF m.indexCount > 0
       THEN LET count == IF m.rangeCount # 0 THEN m.rangeCount ELSE m.indexCount
                indexType == IF m.indexSize = 2 THEN "GL_UNSIGNED_SHORT"
                             ELSE "GL_UNSIGNED_INT"
                offset == m.rangeStart * m.indexSize
            IN IF instanced
                 THEN Call(w, <<"glDrawElementsInstanced", glDrawMode, count, indexType,
                                offset, command.instances>>)
                 ELSE Call(w, <<"glDrawElements", glDrawMode, count, indexType, offset>>)
       ELSE LET count == IF m.rangeCount # 0 THEN m.rangeCount ELSE m.count
            IN IF instanced
                 THEN Call(w, <<"glDrawArraysInstanced", glDrawMode, m.rangeStart, count,
                                command.instances>>)
                 ELSE Call(w, <<"glDrawArrays", glDrawMode, m.rangeStart, count>>)

\* The loop of lines 741-784 from pass i on.
RECURSIVE DrawPasses(_, _, _)
DrawPasses(w, command, i) ==
  LET pipeline == command.pipeline
      camera == command.camera
      shader == command.shader
      stereo == pipeline.canvasCount = 0 /\ camera.stereo
      drawCount == 1 + (IF stereo /\ ~w.state.supportsSinglepass THEN 1 ELSE 0)
      eye == IF stereo /\ w.state.supportsSinglepass THEN -1 ELSE i
      w1 == IF pipeline.canvasCount > 0
              THEN lovrGpuSetViewport(w, <<0, 0, Canvases[pipeline.canvas[1]].width,
                                           Canvases[pipeline.canvas[1]].height>>)
            ELSE IF w.state.supportsSinglepass
              THEN Call(w, <<"glViewportArrayv", 0, 2, camera.viewport>>)
            ELSE lovrGpuSetViewport(w, camera.viewport[i + 1])
      w2 == lovrShaderSetInt(w1, shader, "lovrEye", <<eye>>, 1)
      w3 == Guard(w2, lovrShaderBind(w2, shader))
      w4 == Guard(w3, lovrMeshReadIndices(w3, command.mesh))
      w5 == Guard(w4, [DrawCall(w4, command) EXCEPT !.state.stats.drawCalls = @ + 1])
  IN IF i >= drawCount \/ w.error # "none" THEN w
     ELSE DrawPasses(w5, command, i + 1)

\* lovrGpuDraw whose loop starts at the second pass.
lovrGpuDraw_SkipsFirstPass(w, command, status) ==
  LET w1 == DrawPipeline(lovrGpuUseProgram(w, w.shaders[command.shader].program),
                         command.pipeline)
      w2 == DrawTransform(w1, command)
      w3 == Guard(w2, DrawPose(w2, command))
      w4 == Guard(w3, DrawMaterial(w3, command))
      w5 == Guard(w4, DrawCanvas(w4, command, status))
      w6 == Guard(w5, lovrMeshBind(w5, command.mesh, command.shader))
  IN DrawPasses(w6, command, 1)

lovrGpuDraw(w, command, status) ==
  LET w1 == DrawPipeline(lovrGpuUseProgram(w, w.shaders[command.shader].program),
                         command.pipeline)
      w2 == DrawTransform(w1, command)
      w3 == Guard(w2, DrawPose(w2, command))
      w4 == Guard(w3, DrawMaterial(w3, command))
      w5 == Guard(w4, DrawCanvas(w4, command, status))
      w6 == Guard(w5, lovrMeshBind(w5, command.mesh, command.shader))
  IN DrawPasses(w6, command, 0)

lovrGpuPresent(w) == [w EXCEPT !.state.stats = [shaderSwitches |-> 0, drawCalls |-> 0]]

-----------------------------------------------------------------------------
(* The draw commands *)

\* The pipeline of lovrGraphicsReset.
DefaultPipeline ==
  [blendMode |-> "BLEND_ALPHA", blendAlphaMode |-> "BLEND_ALPHA_MULTIPLY",
   culling |-> FALSE, depthTest |-> "COMPARE_LEQUAL", depthWrite |-> TRUE,
   lineWidth |-> 1, stencilMode |-> "COMPARE_NONE", stencilValue |-> 0,
   winding |-> "WINDING_COUNTERCLOCKWISE", wireframe |-> FALSE,
   pointSize |-> 1, color |-> <<255, 255, 255, 255>>,
   canvasCount |-> 0, canvas |-> <<>>]

\* A pipeline that differs from the default one in every toggle.
OtherPipeline ==
  [DefaultPipeline EXCEPT
     !.blendMode = "BLEND_ADD", !.blendAlphaMode = "BLEND_PREMULTIPLIED",
     !.culling = TRUE, !.depthTest = "COMPARE_NONE", !.depthWrite = FALSE,
     !.lineWidth = 2, !.stencilMode = "COMPARE_LESS", !.stencilValue = 1,
     !.winding = "WINDING_CLOCKWISE", !.wireframe = TRUE,
     !.pointSize = 0, !.color = <<128, 0, 255, 255>>]

\* The pipelines drawn with: the default one, the default one with one toggle
\* changed, for every toggle, and OtherPipeline.
Pipelines ==
  {DefaultPipeline, OtherPipeline}
    \cup {[DefaultPipeline EXCEPT !.blendMode = "BLEND_MULTIPLY"],
          [DefaultPipeline EXCEPT !.blendAlphaMode = "BLEND_PREMULTIPLIED"],
          [DefaultPipeline EXCEPT !.culling = TRUE],
          [DefaultPipeline EXCEPT !.depthTest = "COMPARE_GEQUAL"],
          [DefaultPipeline EXCEPT !.depthWrite = FALSE],
          [DefaultPipeline EXCEPT !.lineWidth = 2],
          [DefaultPipeline EXCEPT !.stencilMode = "COMPARE_EQUAL", !.stencilValue = 1],
          [DefaultPipeline EXCEPT !.winding = "WINDING_CLOCKWISE"],
          [DefaultPipeline EXCEPT !.wireframe = TRUE]}

DefaultMaterial ==
  [scalars |-> <<1, 1>>,
   colors |-> << <<255, 255, 255, 255>>, <<0, 0, 0, 255>> >>,
   textures |-> [i \in 1 .. Len(lovrShaderTextureUniforms) |-> 0],
   transform |-> Identity3]

Command(pipeline, stereo, canvas, instances) ==
  [mesh |-> 1, material |-> DefaultMaterial, shader |-> 1, pipeline |-> pipeline,
   instances |-> instances, transform |-> Identity,
   camera |-> [viewMatrix |-> <<Identity, Identity>>,
               projection |-> <<Identity, Identity>>,
               viewport |-> << <<0, 0, MaxDim, MaxDim>>, <<0, 0, 0, MaxDim>> >>,
               canvas |-> canvas, stereo |-> stereo]]

\* Every pipeline to the window; the default pipeline in stereo, instanced, to
\* the canvas of the camera and to a canvas of its own.
Commands ==
  {Command(pipeline, FALSE, 0, 1) : pipeline \in Pipelines}
    \cup {Command(DefaultPipeline, TRUE, 0, 1), Command(DefaultPipeline, FALSE, 0, 2)}
    \cup {Command(DefaultPipeline, FALSE, c, 1) : c \in CanvasIds}
    \cup {Command([DefaultPipeline EXCEPT !.canvasCount = 1, !.canvas = <<c>>],
                  TRUE, 0, 1) : c \in CanvasIds}

\* The toggles whose cached value is the one the pipeline asks for, by the
\* comparison lovrGpuDraw makes of each.
Unchanged(st, pipeline) ==
  [blendMode |-> st.blendMode = pipeline.blendMode
                   /\ st.blendAlphaMode = pipeline.blendAlphaMode,
   culling |-> st.culling = pipeline.culling,
   depthTest |-> st.depthTest = pipeline.depthTest,
   depthWrite |-> st.depthWrite = pipeline.depthWrite,
   lineWidth |-> st.lineWidth = pipeline.lineWidth,
   winding |-> st.winding = pipeline.winding,
   wireframe |-> st.wireframe = pipeline.wireframe]

\* Whether the draw reaches glCheckFramebufferStatus.
ChecksFramebuffer(command) ==
  command.pipeline.canvasCount > 0 \/ command.camera.canvas # 0

\* unchanged: the toggles the cache already held as the pipeline asks.
GpuDraw ==
  \E command \in Commands :
  \E status \in IF ChecksFramebuffer(command) THEN FramebufferStatuses
                ELSE {"GL_FRAMEBUFFER_COMPLETE"} :
  \E w \in {lovrGpuDraw(World, command, status)} :
    LET changed == {n \in DOMAIN shaders[command.shader].uniforms :
                      w.shaders[command.shader].uniforms[n].value
                        # shaders[command.shader].uniforms[n].value}
    IN /\ state.stats.drawCalls < MaxDraws
       /\ state' = w.state
       /\ calls' = w.calls
       /\ shaders' = w.shaders
       /\ texRefs' = w.refs
       /\ images' = w.images
       /\ meshes' = w.meshes
       /\ pending' = IF w.error = "none" THEN {} ELSE pending \cup changed
       /\ op' = [name |-> "lovrGpuDraw", blendMode |-> command.pipeline.blendMode,
                 unchanged |-> Unchanged(state, command.pipeline), error |-> w.error,
                 command |-> command]
       /\ UNCHANGED <<syncVars, probe, hwCount, changeCount, lastReq, nreq, viewVars>>

\* The sets of canvases a pipeline draws to: A, B, both in either order, and
\* none (the window).
Targets == {<<>>, <<CanvasA>>, <<CanvasB>>, <<CanvasA, CanvasB>>, <<CanvasB, CanvasA>>}

\* What glCheckFramebufferStatus answers on a driver that rejects attachments
\* of different sizes.
CheckFramebufferStatus(canvas) ==
  IF \E i, j \in DOMAIN canvas :
       \/ Canvases[canvas[i]].width # Canvases[canvas[j]].width
       \/ Canvases[canvas[i]].height # Canvases[canvas[j]].height
    THEN {"GL_FRAMEBUFFER_INCOMPLETE_DIMENSIONS"}
    ELSE {"GL_FRAMEBUFFER_COMPLETE", "GL_FRAMEBUFFER_UNSUPPORTED"}

\* A draw of the default pipeline to a set of canvases.
\* drew: the operation issued a draw call.
DrawTargets(targets) ==
  \E canvas \in targets :
  \E command \in {Command([DefaultPipeline EXCEPT !.canvasCount = Len(canvas),
                                                   !.canvas = canvas], FALSE, 0, 1)} :
  \E status \in CheckFramebufferStatus(canvas) :
  \E w \in {lovrGpuDraw(World, command, status)} :
    /\ state.stats.drawCalls < MaxDraws
    /\ state' = w.state
    /\ calls' = w.calls
    /\ shaders' = w.shaders
    /\ texRefs' = w.refs
    /\ images' = w.images
    /\ meshes' = w.meshes
    /\ pending' = IF w.error = "none" THEN {} ELSE pending
    /\ op' = [name |-> "lovrGpuDraw", canvas |-> canvas, error |-> w.error,
              drew |-> \E i \in 1 .. Len(w.calls) :
                         w.calls[i][1] \in {"glDrawArrays", "glDrawElements",
                                            "glDrawArraysInstanced",
                                            "glDrawElementsInstanced"}]
    /\ UNCHANGED <<syncVars, probe, hwCount, changeCount, lastReq, nreq, viewVars>>

GpuDrawTargets == DrawTargets(Targets)

\* The window, the canvas that has mipmaps and samples, and that canvas as
\* the second target next to a canvas of the same size.
MipmappedTargets == {<<>>, <<CanvasA>>} \cup {<<c>> : c \in CanvasIds}
                      \cup {<<CanvasA, c>> : c \in CanvasIds}

GpuDrawMipmapped == DrawTargets(MipmappedTargets)

GpuPresent ==
  /\ state' = lovrGpuPresent(World).state
  /\ calls' = <<>>
  /\ op' = [name |-> "lovrGpuPresent"]
  /\ UNCHANGED <<syncVars, probe, hwCount, changeCount, lastReq, nreq, shaderVars,
                 meshVars, viewVars>>

-----------------------------------------------------------------------------
(* lovrGpuClear and lovrGraphicsStencil (part_001) *)

convertStencilAction(action) ==
  CASE action = "STENCIL_REPLACE" -> "GL_REPLACE"
    [] action = "STENCIL_INCREMENT" -> "GL_INCR"
    [] action = "STENCIL_DECREMENT" -> "GL_DECR"
    [] action = "STENCIL_INCREMENT_WRAP" -> "GL_INCR_WRAP"
    [] action = "STENCIL_DECREMENT_WRAP" -> "GL_DECR_WRAP"
    [] action = "STENCIL_INVERT" -> "GL_INVERT"

\* canvas: a sequence of Canvas; color, depth, stencil: a sequence that is
\* empty for a NULL pointer and holds the value pointed to otherwise.
lovrGpuClear(w, canvas, color, depth, stencil) ==
  LET canvasCount == Len(canvas)
      w1 == lovrGpuBindFramebuffer(w, IF canvasCount > 0
                                        THEN Canvases[canvas[1]].framebuffer ELSE 0)
      c == gammaCorrectColor(w1, color[1])
      w2 == IF color # <<>>
              THEN [w1 EXCEPT !.calls = @ \o
                      [i \in 1 .. (IF canvasCount > 1 THEN canvasCount ELSE 1) |->
                         <<"glClearBufferfv", "GL_COLOR", i - 1, c>>]]
              ELSE w1
      w3 == IF depth # <<>>
              THEN Call(IF ~w2.state.depthWrite
                          THEN Call([w2 EXCEPT !.state.depthWrite = TRUE],
                                    <<"glDepthMask", "GL_TRUE">>)
                          ELSE w2,
                        <<"glClearBufferfv", "GL_DEPTH", 0, depth[1]>>)
              ELSE w2
      w4 == IF stencil # <<>>
              THEN Call(w3, <<"glClearBufferiv", "GL_STENCIL", 0, stencil[1]>>)
              ELSE w3
  IN IF canvasCount > 0 THEN lovrCanvasResolve(w4, canvas[1]) ELSE w4

\* callback: the draws that callback(userdata) makes, a sequence of commands.
\* The world the callback starts from and the world it leaves are bound as
\* values, so that each is computed once.
lovrGraphicsStencil(w, action, replaceValue, callback) ==
  LET w1 == Call([w EXCEPT !.state.depthWrite = FALSE],
                 <<"glColorMask", "GL_FALSE", "GL_FALSE", "GL_FALSE", "GL_FALSE">>)
      w2 == IF ~w1.state.stencilEnabled
              THEN Call([w1 EXCEPT !.state.stencilEnabled = TRUE],
                        <<"glEnable", "GL_STENCIL_TEST">>)
              ELSE w1
      w3 == Call(Call(w2, <<"glStencilFunc", "GL_ALWAYS", replaceValue, 255>>),
                 <<"glStencilOp", "GL_KEEP", "GL_KEEP", convertStencilAction(action)>>)
      w4 == [w3 EXCEPT !.state.stencilWriting = TRUE]
      after(w5) ==
        LET w6 == Call([w5 EXCEPT !.state.stencilWriting = FALSE],
                       <<"glColorMask", "GL_TRUE", "GL_TRUE", "GL_TRUE", "GL_TRUE">>)
        IN Guard(w5, [w6 EXCEPT !.state.stencilMode = "dirty"])
  IN IF callback = <<>> THEN after(w4)
     ELSE CHOOSE left \in
            {after(w5) : w5 \in {lovrGpuDraw(before, callback[1], "GL_FRAMEBUFFER_COMPLETE") :
                                   before \in {w4}}} : TRUE

\* The draws a stencil callback makes: to the window, with the default
\* pipeline, without depth writes, and with a stencil test.
StencilCommands ==
  {Command(DefaultPipeline, FALSE, 0, 1),
   Command([DefaultPipeline EXCEPT !.depthWrite = FALSE], FALSE, 0, 1),
   Command([DefaultPipeline EXCEPT !.stencilMode = "COMPARE_EQUAL", !.stencilValue = 1],
           FALSE, 0, 1)}

\* What an operation on the state cache and the objects of a draw leaves.
DrawStep(w) ==
  /\ state' = w.state
  /\ calls' = w.calls
  /\ shaders' = w.shaders
  /\ texRefs' = w.refs
  /\ images' = w.images
  /\ meshes' = w.meshes
  /\ pending' = IF w.error = "none" THEN {} ELSE pending
  /\ UNCHANGED <<syncVars, probe, hwCount, changeCount, lastReq, nreq, viewVars>>

\* The default pipeline to the window, for one eye and for both.
EyeCommands == {Command(DefaultPipeline, stereo, 0, 1) : stereo \in BOOLEAN}

GpuDrawEyes ==
  \E command \in EyeCommands :
  \E w \in {lovrGpuDraw(World, command, "GL_FRAMEBUFFER_COMPLETE")} :
    /\ state.stats.drawCalls < MaxDraws
    /\ DrawStep(w)
    /\ op' = [name |-> "lovrGpuDraw", error |-> w.error]

GpuClear ==
  \E canvas \in {<<>>} \cup {<<c>> : c \in CanvasIds} :
  \E color \in {<<>>, << <<128, 0, 255, 255>> >>}, depth \in {<<>>, <<1>>},
     stencil \in {<<>>, <<0>>} :
  \E w \in {lovrGpuClear(World, canvas, color, depth, stencil)} :
    /\ DrawStep(w)
    /\ op' = [name |-> "lovrGpuClear", canvas |-> canvas, error |-> w.error]

GraphicsStencil ==
  \E action \in {"STENCIL_REPLACE", "STENCIL_INVERT"}, replaceValue \in {1} :
  \E callback \in {<<>>} \cup {<<c>> : c \in StencilCommands} :
  \E w \in {lovrGraphicsStencil(World, action, replaceValue, callback)} :
    /\ state.stats.drawCalls < MaxDraws
    /\ DrawStep(w)
    /\ op' = [name |-> "lovrGraphicsStencil", error |-> w.error]

-----------------------------------------------------------------------------
(* The draw range of a mesh (part_001) *)

\* A uint32_t is represented by the integer of the same 32 bits in two's
\* complement: 0 .. INT_MAX by itself, 2^32 - k by -k.
UINT32_MAX == -1

\* a + b modulo 2^32.
Add32(a, b) ==
  IF a >= 0 /\ b >= 0
    THEN IF a <= INT_MAX - b THEN a + b
         ELSE ((a - INT_MAX) - 1) + b - INT_MAX - 1
  ELSE IF a < 0 /\ b < 0
    THEN IF ((a + INT_MAX) + 1) + b < 0
           THEN ((((a + INT_MAX) + 1) + b) + INT_MAX) + 1
           ELSE a + b
  ELSE a + b

\* a <= b as unsigned numbers.
Le32(a, b) ==
  IF (a >= 0) = (b >= 0) THEN a <= b ELSE a >= 0

lovrMeshSetDrawRange(w, mesh, start, count) ==
  LET m == w.meshes[mesh]
      limit == IF m.indexCount > 0 THEN m.indexCount ELSE m.count
  IN IF Le32(Add32(start, count), limit)
       THEN [w EXCEPT !.meshes[mesh].rangeStart = start,
                      !.meshes[mesh].rangeCount = count]
       ELSE Throw(w, "Invalid mesh draw range")

\* The starts and counts asked for: the small ones and the largest uint32_t.
RangeWords == (0 .. (MaxVertices + 1)) \cup {UINT32_MAX}

IndexSizes == {2, 4}

MeshSetDrawRange ==
  \E mesh \in Created, start \in RangeWords, count \in RangeWords :
  \E w \in {lovrMeshSetDrawRange(World, mesh, start, count)} :
    /\ MeshStep(w)
    /\ op' = [name |-> "lovrMeshSetDrawRange", mesh |-> mesh, error |-> w.error,
              kept |-> w.meshes = meshes /\ w.state = state]

WriteIndices(ids, counts, sizes) ==
  \E mesh \in ids, count \in counts, size \in sizes :
  \E w \in {lovrMeshWriteIndices(World, mesh, count, size)} :
    /\ MeshStep(w)
    /\ op' = [name |-> "lovrMeshWriteIndices", mesh |-> mesh]

MeshWriteIndices == WriteIndices(Created, 0 .. MaxVertices, IndexSizes)

-----------------------------------------------------------------------------
(* Attributes attached from other meshes (part_001) *)

lovrRetainMesh(w, mesh) == [w EXCEPT !.meshes[mesh].ref = @ + 1]

\* The sources of the attachments of a mesh that come from other meshes, one
\* for each such attachment.
RECURSIVE ReleaseSources(_, _, _)
RECURSIVE lovrReleaseMesh(_, _)

\* lovrMeshDestroy: the buffers and the vertex array are deleted, every mesh an
\* attribute was attached from is released, the mesh is freed.
lovrMeshDestroy(w, mesh) ==
  LET m == w.meshes[mesh]
      w1 == Call(Call(Call(w, <<"glDeleteBuffers", m.vbo>>), <<"glDeleteBuffers", m.ibo>>),
                 <<"glDeleteVertexArrays", m.vao>>)
      w2 == ReleaseSources(w1, mesh, DOMAIN m.attachments)
  IN [w2 EXCEPT !.meshes[mesh] = NoMesh]

lovrReleaseMesh(w, mesh) ==
  IF w.meshes[mesh].ref > 1
    THEN [w EXCEPT !.meshes[mesh].ref = @ - 1]
    ELSE lovrMeshDestroy(w, mesh)

ReleaseSources(w, mesh, keys) ==
  IF keys = {} THEN w
  ELSE LET key == CHOOSE k \in keys : TRUE
           other == w.meshes[mesh].attachments[key].mesh
       IN ReleaseSources(IF other # mesh THEN lovrReleaseMesh(w, other) ELSE w,
                         mesh, keys \ {key})

\* lovrMeshAttachAttribute without the test of mesh->isAttachment.
lovrMeshAttachAttribute_AnyMesh(w, mesh, other, name, divisor) ==
  LET m == w.meshes[mesh]
      o == w.meshes[other]
  IN IF name \notin DOMAIN o.attachments
       THEN Throw(w, "No attribute named '%s' exists")
     ELSE IF name \in DOMAIN m.attachments
       THEN Throw(w, "Mesh already has an attribute named '%s'")
     ELSE IF divisor < 0
       THEN Throw(w, "Divisor can't be negative")
     ELSE LET attachment == [mesh |-> other,
                             attributeIndex |-> o.attachments[name].attributeIndex,
                             divisor |-> divisor, enabled |-> TRUE]
              w1 == [w EXCEPT !.meshes[mesh].attachments = (name :> attachment) @@ @]
          IN lovrRetainMesh([w1 EXCEPT !.meshes[other].isAttachment = TRUE], other)

lovrMeshAttachAttribute(w, mesh, other, name, divisor) ==
  LET m == w.meshes[mesh]
      o == w.meshes[other]
  IN IF m.isAttachment
       THEN Throw(w, "Attempted to attach to a mesh which is an attachment itself")
     ELSE IF name \notin DOMAIN o.attachments
       THEN Throw(w, "No attribute named '%s' exists")
     ELSE IF name \in DOMAIN m.attachments
       THEN Throw(w, "Mesh already has an attribute named '%s'")
     ELSE IF divisor < 0
       THEN Throw(w, "Divisor can't be negative")
     ELSE LET attachment == [mesh |-> other,
                             attributeIndex |-> o.attachments[name].attributeIndex,
                             divisor |-> divisor, enabled |-> TRUE]
              w1 == [w EXCEPT !.meshes[mesh].attachments = (name :> attachment) @@ @]
          IN lovrRetainMesh([w1 EXCEPT !.meshes[other].isAttachment = TRUE], other)

\* lovrMeshDetachAttribute that also detaches the attributes of the mesh's own format.
lovrMeshDetachAttribute_AnySource(w, mesh, name) ==
  LET m == w.meshes[mesh]
  IN IF name \notin DOMAIN m.attachments
       THEN Throw(w, "No attached attribute '%s' was found")
     ELSE LET w1 == lovrReleaseMesh(w, m.attachments[name].mesh)
          IN [w1 EXCEPT !.meshes[mesh].attachments =
                [key \in DOMAIN @ \ {name} |-> @[key]]]

lovrMeshDetachAttribute(w, mesh, name) ==
  LET m == w.meshes[mesh]
  IN IF name \notin DOMAIN m.attachments
       THEN Throw(w, "No attached attribute '%s' was found")
     ELSE IF m.attachments[name].mesh = mesh
       THEN Throw(w, "Attribute '%s' was not attached from another Mesh")
     ELSE LET w1 == lovrReleaseMesh(w, m.attachments[name].mesh)
          IN [w1 EXCEPT !.meshes[mesh].attachments =
                [key \in DOMAIN @ \ {name} |-> @[key]]]

lovrMeshSetAttributeEnabled(w, mesh, name, enable) ==
  IF name \notin DOMAIN w.meshes[mesh].attachments
    THEN Throw(w, "Mesh does not have an attribute named '%s'")
    ELSE [w EXCEPT !.meshes[mesh].attachments[name].enabled = enable]

\* The meshes of the attachment scenarios and the names and divisors they ask for.
AttachIds == {1, 2, 3}
AttributeNames == {"lovrPosition", "lovrVertexColor", "lovrTexCoord"}
Divisors == {-1, 0, 1}

\* unchanged: no mesh's attachment map and no reference count has changed;
\* source: the mesh was an attachment source when the operation began.
AttachAttribute(targets, sources) ==
  \E mesh \in targets, other \in sources, name \in AttributeNames,
     divisor \in Divisors :
  \E w \in {lovrMeshAttachAttribute(World, mesh, other, name, divisor)} :
    /\ MeshStep(w)
    /\ op' = [name |-> "lovrMeshAttachAttribute", mesh |-> mesh, other |-> other,
              attribute |-> name, error |-> w.error,
              source |-> meshes[mesh].isAttachment,
              had |-> name \in DOMAIN meshes[mesh].attachments,
              unchanged |-> \A i \in AttachIds :
                              /\ w.meshes[i].attachments = meshes[i].attachments
                              /\ w.meshes[i].ref = meshes[i].ref]

MeshAttachAttribute == AttachAttribute(AttachIds, AttachIds)

DetachAttribute(targets) ==
  \E mesh \in targets, name \in AttributeNames :
  \E w \in {lovrMeshDetachAttribute(World, mesh, name)} :
    /\ MeshStep(w)
    /\ op' = [name |-> "lovrMeshDetachAttribute", mesh |-> mesh,
              attribute |-> name, error |-> w.error,
              own |-> /\ name \in DOMAIN meshes[mesh].attachments
                      /\ meshes[mesh].attachments[name].mesh = mesh,
              unchanged |-> \A i \in AttachIds :
                              /\ w.meshes[i].attachments = meshes[i].attachments
                              /\ w.meshes[i].ref = meshes[i].ref]

MeshDetachAttribute == DetachAttribute(AttachIds)

\* The layout lovrMeshBind computes for a mesh and a shader: for each location
\* of the shader, the attachment of the mesh named after the attribute there.
EffectiveLayout(mesh, shader) ==
  [i \in 0 .. (MAX_ATTACHMENTS - 1) |->
     IF \E key \in Located(World, mesh, shader) :
          lovrShaderGetAttributeId(World, shader, key) = i
       THEN meshes[mesh].attachments[CHOOSE key \in Located(World, mesh, shader) :
                                       lovrShaderGetAttributeId(World, shader, key) = i]
       ELSE NoAttachment]

\* The mesh that is drawn, with attributes of its own and of the other meshes.
BoundIds == {1}
SourceIds == {1, 2}

MeshBind ==
  \E mesh \in BoundIds, shader \in ShaderIds :
  \E w \in {lovrMeshBind(World, mesh, shader)} :
    /\ MeshStep(w)
    /\ op' = [name |-> "lovrMeshBind", mesh |-> mesh, shader |-> shader,
              error |-> w.error]

\* Attributes are attached to and detached from the mesh that is drawn.
MeshAttachBound == AttachAttribute(BoundIds, SourceIds)

MeshDetachBound == DetachAttribute(BoundIds)

\* The mesh the colour of the mesh that is drawn comes from: itself or a source.
ColourSource == {meshes[mesh].attachments["lovrVertexColor"].mesh : mesh \in BoundIds}

\* Its vertices and its indices are mapped between two draws.
MeshMapSources == MapVertices(ColourSource, {0})

MeshWriteSources == WriteIndices(ColourSource, {1}, {2})

MeshSetAttributeEnabled ==
  \E mesh \in BoundIds, name \in AttributeNames, enable \in BOOLEAN :
  \E w \in {lovrMeshSetAttributeEnabled(World, mesh, name, enable)} :
    /\ MeshStep(w)
    /\ op' = [name |-> "lovrMeshSetAttributeEnabled", mesh |-> mesh, error |-> w.error]

-----------------------------------------------------------------------------
(* Textures and texture views (part_002) *)

ViewIds == 1 .. MaxViews

NoTexture == [alive |-> FALSE, refs |-> 0, source |-> 0]

\* The operations of part_002 on textures are functions of g: the Texture
\* objects g.textures and the device calls g.calls of the running operation.
Graphics == [textures |-> textures, calls |-> <<>>, error |-> "none"]

\* calloc hands out a block that is not in use.
FreeTexture(g) ==
  CHOOSE t \in ViewIds : ~g.textures[t].alive
                           /\ \A u \in ViewIds : ~g.textures[u].alive => t <= u

lovrRetainTexture(g, t) == [g EXCEPT !.textures[t].refs = @ + 1]

\* lovrTextureDestroy is the destructor lovrRelease runs when the last
\* reference goes, after which the object is freed.
RECURSIVE lovrTextureDestroy(_, _)
RECURSIVE lovrReleaseTexture(_, _)
lovrReleaseTexture(g, t) ==
  IF g.textures[t].refs = 1
    THEN [lovrTextureDestroy([g EXCEPT !.textures[t].refs = 0], t)
            EXCEPT !.textures[t] = NoTexture]
    ELSE [g EXCEPT !.textures[t].refs = @ - 1]

lovrTextureDestroy(g, t) ==
  LET g1 == Call(g, <<"gpu_texture_destroy", t>>)
  IN IF g.textures[t].source # 0
       THEN lovrReleaseTexture(g1, g.textures[t].source)
       ELSE g1

\* The new object belongs to the caller: it holds the one reference to it.
\* ok is the result of gpu_texture_init.
lovrTextureCreateFromInfo(g, ok) ==
  LET t == FreeTexture(g)
      g1 == Call(g, <<"gpu_texture_init", t>>)
  IN IF ~ok THEN Throw(g1, "Could not create Texture")
     ELSE [g1 EXCEPT !.textures[t] = [alive |-> TRUE, refs |-> 1, source |-> 0]]

\* lovrTextureCreateView that does not retain the source.
lovrTextureCreateView_NoRetain(g, source, ok) ==
  LET t == FreeTexture(g)
      g1 == Call(g, <<"gpu_texture_init_view", t, source>>)
  IN IF ~ok THEN Throw(g1, "Could not create Texture view")
     ELSE [g1 EXCEPT !.textures[t] = [alive |-> TRUE, refs |-> 1, source |-> source]]

\* ok is the result of gpu_texture_init_view.
lovrTextureCreateView(g, source, ok) ==
  LET t == FreeTexture(g)
      g1 == Call(g, <<"gpu_texture_init_view", t, source>>)
      g2 == [g1 EXCEPT !.textures[t] = [alive |-> TRUE, refs |-> 1, source |-> source]]
  IN IF ~ok THEN Throw(g1, "Could not create Texture view")
     ELSE lovrRetainTexture(g2, source)

\* What an operation on the textures of part_002 leaves behind.
ViewStep(g) ==
  /\ textures' = g.textures
  /\ calls' = g.calls
  /\ UNCHANGED <<syncVars, probe, cacheVars, shaderVars, meshVars, headset>>

Alive == {t \in ViewIds : textures[t].alive}

CreateTexture ==
  \E ok \in BOOLEAN :
    LET t == FreeTexture(Graphics)
    IN /\ Alive # ViewIds
       /\ ViewStep(lovrTextureCreateFromInfo(Graphics, ok))
       /\ holds' = IF ok THEN [holds EXCEPT ![t] = 1] ELSE holds
       /\ op' = [name |-> "lovrTextureCreate", texture |-> t, ok |-> ok,
                 before |-> textures]

CreateView ==
  \E source \in Alive, ok \in BOOLEAN :
    LET t == FreeTexture(Graphics)
    IN /\ Alive # ViewIds
       /\ ViewStep(lovrTextureCreateView(Graphics, source, ok))
       /\ holds' = IF ok THEN [holds EXCEPT ![t] = 1] ELSE holds
       /\ op' = [name |-> "lovrTextureCreateView", texture |-> t, source |-> source,
                 ok |-> ok, before |-> textures]

\* The application takes one more reference to a texture it can reach.
RetainTexture ==
  \E t \in Alive :
    /\ holds[t] < MaxHolds
    /\ ViewStep(lovrRetainTexture(Graphics, t))
    /\ holds' = [holds EXCEPT ![t] = @ + 1]
    /\ op' = [name |-> "lovrRetain", texture |-> t, before |-> textures]

\* The application gives up one of its references.
ReleaseTexture ==
  \E t \in Alive :
    /\ holds[t] > 0
    /\ ViewStep(lovrReleaseTexture(Graphics, t))
    /\ holds' = [holds EXCEPT ![t] = @ - 1]
    /\ op' = [name |-> "lovrRelease", texture |-> t, before |-> textures]

\* The zeroed HeadsetState.
NoHeadset == [canvas |-> 0, isMirrored |-> FALSE, mirrorEye |-> "EYE_LEFT", msaa |-> 0]

InitViewVars ==
  /\ textures = [t \in ViewIds |-> NoTexture]
  /\ holds = [t \in ViewIds |-> 0]
  /\ headset = NoHeadset

-----------------------------------------------------------------------------
(* The mipmap count of a texture (part_001, part_002) *)

TextureTypes == {"TEXTURE_2D", "TEXTURE_ARRAY", "TEXTURE_CUBE", "TEXTURE_VOLUME"}

MAX(a, b) == IF a > b THEN a ELSE b

\* log2(x) converted to an integer, x >= 1: the conversion drops the fraction.
RECURSIVE log2(_)
log2(x) == IF x < 2 THEN 0 ELSE 1 + log2(x \div 2)

\* lovrTextureAllocate of part_001, up to the mipmap count: texture has the
\* type, depth and mipmaps flag that lovrTextureCreate gave it.
lovrTextureAllocate(texture, w, h) ==
  LET d == texture.depth
      dimension == IF texture.type = "TEXTURE_VOLUME" THEN MAX(MAX(w, h), d) ELSE MAX(w, h)
  IN [texture EXCEPT !.allocated = TRUE, !.width = w, !.height = h,
                     !.mipmapCount = IF texture.mipmaps THEN log2(dimension) + 1 ELSE 1]

\* lovrTextureCreate of part_002, up to gpuInfo.mipmaps: ~0u asks for the
\* automatic count.
lovrTextureCreateMipmaps(info) ==
  IF info.mipmaps = UINT32_MAX
    THEN log2(MAX(MAX(info.size[1], info.size[2]), info.size[3])) + 1
    ELSE info.mipmaps

\* The shapes a texture can have: one image for a 2D texture, six square ones
\* for a cube.
Shapes ==
  {s \in [type : TextureTypes, width : 1 .. MaxSize, height : 1 .. MaxSize,
          depth : 1 .. MaxLayers] :
     /\ s.type = "TEXTURE_2D" => s.depth = 1
     /\ s.type = "TEXTURE_CUBE" => s.depth = 6 /\ s.width = s.height}

MipmapStep ==
  UNCHANGED <<calls, syncVars, cacheVars, shaderVars, meshVars, viewVars>>

TextureAllocate ==
  /\ probe.done = FALSE
  /\ probe' = [probe EXCEPT !.done = TRUE,
                 !.result = lovrTextureAllocate(
                              [type |-> probe.shape.type, depth |-> probe.shape.depth,
                               mipmaps |-> TRUE, allocated |-> FALSE, width |-> 0,
                               height |-> 0, mipmapCount |-> 0],
                              probe.shape.width, probe.shape.height).mipmapCount]
  /\ op' = [name |-> "lovrTextureAllocate"]
  /\ MipmapStep

TextureCreateMipmaps ==
  /\ probe.done = FALSE
  /\ probe' = [probe EXCEPT !.done = TRUE,
                 !.result = lovrTextureCreateMipmaps(
                              [type |-> probe.shape.type, mipmaps |-> UINT32_MAX,
                               size |-> <<probe.shape.width, probe.shape.height,
                                          probe.shape.depth>>])]
  /\ op' = [name |-> "lovrTextureCreate"]
  /\ MipmapStep

-----------------------------------------------------------------------------
(* Texture creation by type and the life of the state cache (part_001) *)

lovrTextureSetFilter(w, texture) ==
  Call(Call(Call(BindTextureObject(w, texture, 0),
                 <<"glTexParameteri", texture, "GL_TEXTURE_MIN_FILTER">>),
            <<"glTexParameteri", texture, "GL_TEXTURE_MAG_FILTER">>),
       <<"glTexParameteri", texture, "GL_TEXTURE_MAX_ANISOTROPY_EXT">>)

lovrTextureSetWrap(w, texture) ==
  LET w1 == Call(Call(BindTextureObject(w, texture, 0),
                      <<"glTexParameteri", texture, "GL_TEXTURE_WRAP_S">>),
                 <<"glTexParameteri", texture, "GL_TEXTURE_WRAP_T">>)
  IN IF w.images[texture].type \in {"TEXTURE_CUBE", "TEXTURE_VOLUME"}
       THEN Call(w1, <<"glTexParameteri", texture, "GL_TEXTURE_WRAP_R">>)
       ELSE w1

\* lovrTextureReplacePixels(texture, slices[slice], 0, 0, slice, 0) for an
\* image of width x height without pixel data: the first one allocates.
lovrTextureReplacePixels(w, texture, width, height, slice) ==
  LET w1 == BindTextureObject(w, texture, 0)
      image == w1.images[texture]
  IN IF image.allocated THEN w1
     ELSE IF image.type = "TEXTURE_CUBE" /\ width # height
       THEN Throw(w1, "Cubemap images must be square")
     ELSE Call([w1 EXCEPT !.images[texture] = lovrTextureAllocate(image, width, height)],
               <<"glTexStorage", texture,
                 lovrTextureAllocate(image, width, height).mipmapCount>>)

RECURSIVE ReplaceSlices(_, _, _, _, _, _)
ReplaceSlices(w, texture, width, height, slice, depth) ==
  IF slice >= depth \/ w.error # "none" THEN w
  ELSE ReplaceSlices(lovrTextureReplacePixels(w, texture, width, height, slice),
                     texture, width, height, slice + 1, depth)

\* lovrTextureCreate(type, slices, depth, srgb, mipmaps) with depth images of
\* width x height. An assert that fails leaves what was done before it.
lovrTextureCreateSlices(w, texture, type, depth, mipmaps, width, height) ==
  LET image == [NoImage EXCEPT !.type = type, !.depth = depth, !.mipmaps = mipmaps]
      w1 == Call([w EXCEPT !.refs[texture] = 1, !.images[texture] = image],
                 <<"glGenTextures", texture>>)
      w2 == BindTextureObject(w1, texture, 0)
      w3 == lovrTextureSetWrap(lovrTextureSetFilter(w2, texture), texture)
  IN IF type = "TEXTURE_CUBE" /\ depth # 6
       THEN Throw(w3, "6 images are required for a cube texture")
     ELSE IF type = "TEXTURE_2D" /\ depth # 1
       THEN Throw(w3, "2D textures can only contain a single image")
     ELSE ReplaceSlices(w3, texture, width, height, 0, depth)

\* lovrGpuInit on a device that supports single-pass stereo or does not: the
\* fields it assigns, the others keep what they hold.
lovrGpuInit(w, srgb, singlepass) ==
  LET w1 == Call(Call(Call(w, <<"glEnable", "GL_LINE_SMOOTH">>),
                      <<"glEnable", "GL_PROGRAM_POINT_SIZE">>),
                 IF srgb THEN <<"glEnable", "GL_FRAMEBUFFER_SRGB">>
                 ELSE <<"glDisable", "GL_FRAMEBUFFER_SRGB">>)
      w2 == Call(Call(w1, <<"glEnable", "GL_BLEND">>),
                 <<"glPixelStorei", "GL_UNPACK_ALIGNMENT", 1>>)
  IN [w2 EXCEPT !.state.supportsSinglepass = singlepass,
                !.state.srgb = srgb,
                !.state.blendMode = "unset",
                !.state.blendAlphaMode = "unset",
                !.state.culling = FALSE,
                !.state.depthEnabled = FALSE,
                !.state.depthTest = "COMPARE_LESS",
                !.state.depthWrite = TRUE,
                !.state.lineWidth = 1,
                !.state.stencilEnabled = FALSE,
                !.state.stencilMode = "COMPARE_NONE",
                !.state.stencilValue = 0,
                !.state.stencilWriting = FALSE,
                !.state.winding = "WINDING_COUNTERCLOCKWISE",
                !.state.wireframe = FALSE]

RECURSIVE ReleaseSlots(_, _)
ReleaseSlots(w, i) ==
  IF i >= MAX_TEXTURES THEN w
  ELSE ReleaseSlots(lovrRelease(w, w.state.textures[i]), i + 1)

lovrGpuDestroy(w) == ReleaseSlots(lovrRelease(w, w.state.defaultTexture), 0)

\* The Textures the state cache points to that have been freed.
Freed(st, refs) ==
  {t \in TextureIds :
     /\ refs[t] = 0
     /\ t = st.defaultTexture \/ \E i \in TextureSlots : st.textures[i] = t}

Depths == {1, 5, 6}
ImageSizes == {1, 2}

\* Reading a freed Texture is undefined: the operations that would do so are
\* not followed; between lovrGpuDestroy and lovrGpuInit nothing else runs.
TextureCreateSlices ==
  \E type \in TextureTypes, depth \in Depths, mipmaps \in BOOLEAN,
     width \in ImageSizes, height \in ImageSizes :
    /\ Freed(state, texRefs) = {}
    /\ \E t \in TextureIds : texRefs[t] = 0
    /\ \E w \in {lovrTextureCreateSlices(World, NextTexture(texRefs), type, depth, mipmaps,
                                         width, height)} :
         /\ ShaderStep(w)
         /\ pending' = pending
         /\ op' = [name |-> "lovrTextureCreate", texture |-> NextTexture(texRefs),
                   type |-> type, depth |-> depth, error |-> w.error]

GpuBindTexture ==
  \E texture \in {0} \cup {t \in TextureIds : texRefs[t] > 0}, slot \in 0 .. MaxSlot :
    /\ Freed(state, texRefs) = {}
    /\ op.name # "lovrGpuDestroy"
    /\ (texture = 0 /\ state.defaultTexture = 0) => \E t \in TextureIds : texRefs[t] = 0
    /\ \E w \in {lovrGpuBindTexture(World, texture, slot)} :
         w.error # "undefined" /\ ShaderStep(w)
    /\ pending' = pending
    /\ op' = [name |-> "lovrGpuBindTexture"]

\* lovrTextureCreate of a 1x1 image while the state cache is in use.
TextureCreateInUse ==
  /\ Freed(state, texRefs) = {}
  /\ op.name # "lovrGpuDestroy"
  /\ TextureCreate

GpuUseProgram ==
  \E n \in Names :
    /\ op.name # "lovrGpuDestroy"
    /\ state.stats.shaderSwitches < MaxSwitches
    /\ ShaderStep(lovrGpuUseProgram(World, n))
    /\ pending' = pending
    /\ op' = [name |-> "lovrGpuUseProgram"]

GpuDestroy ==
  /\ Freed(state, texRefs) = {}
  /\ op.name # "lovrGpuDestroy"
  /\ \E w \in {lovrGpuDestroy(World)} :
       /\ ShaderStep(w)
       /\ pending' = pending
       /\ op' = [name |-> "lovrGpuDestroy"]

GpuInit ==
  \E srgb \in BOOLEAN, singlepass \in BOOLEAN :
    /\ op.name = "lovrGpuDestroy"
    /\ ShaderStep(lovrGpuInit(World, srgb, singlepass))
    /\ pending' = pending
    /\ op' = [name |-> "lovrGpuInit"]

TextureSetFilter ==
  \E texture \in Held :
    /\ Freed(state, texRefs) = {}
    /\ op.name # "lovrGpuDestroy"
    /\ ShaderStep(lovrTextureSetFilter(World, texture))
    /\ pending' = pending
    /\ op' = [name |-> "lovrTextureSetFilter", texture |-> texture]

TextureSetWrap ==
  \E texture \in Held :
    /\ Freed(state, texRefs) = {}
    /\ op.name # "lovrGpuDestroy"
    /\ ShaderStep(lovrTextureSetWrap(World, texture))
    /\ pending' = pending
    /\ op' = [name |-> "lovrTextureSetWrap", texture |-> texture]

\* slot: a slot in use, or the first number that is no slot.
GpuDirtyTexture ==
  \E slot \in (0 .. MaxSlot) \cup {MAX_TEXTURES} :
    /\ Freed(state, texRefs) = {}
    /\ op.name # "lovrGpuDestroy"
    /\ \A t \in TextureIds : texRefs[t] <= MaxRefs
    /\ \E w \in {lovrGpuDirtyTexture(World, slot)} :
         /\ ShaderStep(w)
         /\ op' = [name |-> "lovrGpuDirtyTexture", error |-> w.error]
    /\ pending' = pending

-----------------------------------------------------------------------------
(* Shader blocks (part_001) *)

\* The uniforms a block is made of: scalars, vectors and arrays of them, and
\* matrices; the caller's array holds no offsets yet.
BlockUniforms ==
  {[type |-> "UNIFORM_FLOAT", components |-> c, count |-> n, offset |-> 0] :
     c \in {1, 3}, n \in {1, 2}}
    \cup {[type |-> "UNIFORM_INT", components |-> 1, count |-> n, offset |-> 0] :
            n \in {1, 2}}
    \cup {[type |-> "UNIFORM_MATRIX", components |-> c, count |-> 1, offset |-> 0] :
            c \in {2, 4}}

\* The loop of lovrShaderBlockCreate: the caller's array with the offsets
\* from uniform i on, offset being the one of uniform i.
RECURSIVE BlockOffsets(_, _, _)
BlockOffsets(uniforms, i, offset) ==
  IF i > Len(uniforms) THEN [uniforms |-> uniforms, offset |-> offset]
  ELSE LET u == uniforms[i]
           size == IF u.type # "UNIFORM_MATRIX"
                     THEN IF u.count = 1 THEN 4 ELSE u.count * 16
                     ELSE u.components * u.components * 4
       IN BlockOffsets([uniforms EXCEPT ![i].offset = offset], i + 1, offset + size)

\* block: the ShaderBlock made, with the size of its buffer; uniforms: the
\* caller's array afterwards. The block copies the array before the loop.
lovrShaderBlockCreate(uniforms) ==
  LET laid == BlockOffsets(uniforms, 1, 0)
  IN [block |-> [uniforms |-> uniforms, uniformCount |-> Len(uniforms),
                 totalSize |-> laid.offset],
      uniforms |-> laid.uniforms]

ShaderBlockCreate ==
  /\ probe.done = FALSE
  /\ probe' = [probe EXCEPT !.done = TRUE,
                            !.result = lovrShaderBlockCreate(probe.uniforms)]
  /\ op' = [name |-> "lovrShaderBlockCreate"]
  /\ UNCHANGED <<calls, syncVars, cacheVars, shaderVars, meshVars, viewVars>>

-----------------------------------------------------------------------------
(* The OpenVR headset driver (src/headset/openvr.c) *)

\* The operations of openvr.c are functions of v: the HeadsetState v.headset
\* and the calls v.calls the running operation has made, in order.
Vr == [headset |-> headset, calls |-> <<>>, error |-> "none"]

HeadsetEyes == {"EYE_LEFT", "EYE_RIGHT", "EYE_BOTH"}
VrEyes == <<"EVREye_Eye_Left", "EVREye_Eye_Right">>
MsaaLevels == {0, 4}

\* The Canvas and the Texture that lovrCanvasCreate and lovrTextureCreate
\* hand out to the driver.
HeadsetCanvas == 1
HeadsetTexture == 2

openvrInit(v, msaa) ==
  [v EXCEPT !.headset = [NoHeadset EXCEPT !.isMirrored = TRUE, !.mirrorEye = "EYE_BOTH",
                                          !.msaa = msaa]]

openvrSetMirrored(v, mirror, eye) ==
  [v EXCEPT !.headset.isMirrored = mirror, !.headset.mirrorEye = eye]

openvrDestroy(v) ==
  Call(Call([v EXCEPT !.headset = NoHeadset], <<"lovrRelease", v.headset.canvas>>),
       <<"VR_ShutdownInternal">>)

\* Lines 555-562: the canvas of twice the recommended width and its texture.
CreateCanvas(v, width, height) ==
  LET v1 == Call(v, <<"GetRecommendedRenderTargetSize">>)
      v2 == Call([v1 EXCEPT !.headset.canvas = HeadsetCanvas],
                 <<"lovrCanvasCreate", width * 2, height, v.headset.msaa>>)
      v3 == Call(Call(v2, <<"lovrTextureCreate", "TEXTURE_2D", v.headset.msaa>>),
                 <<"lovrTextureAllocate", HeadsetTexture, width * 2, height>>)
  IN Call(Call(v3, <<"lovrCanvasSetAttachments", HeadsetCanvas, HeadsetTexture>>),
          <<"lovrRelease", HeadsetTexture>>)

\* Lines 565-577: the view and projection of both eyes.
EyeCameras(v) ==
  LET v1 == Call(v, <<"getTransform", "HEADSET_INDEX">>)
      Eye(u, i) == Call(Call(u, <<"GetProjectionMatrix", VrEyes[i]>>),
                        <<"GetEyeToHeadTransform", VrEyes[i]>>)
  IN Eye(Eye(v1, 1), 2)

\* Lines 583-604: both halves of the texture go to the compositor, then to
\* the window when mirrored.
SubmitEyes(v, gamma) ==
  LET colorSpace == IF gamma THEN "EColorSpace_ColorSpace_Linear"
                    ELSE "EColorSpace_ColorSpace_Gamma"
      v1 == Call(v, <<"lovrCanvasGetAttachments", v.headset.canvas>>)
      v2 == Call(Call(v1, <<"Submit", VrEyes[1], HeadsetTexture, colorSpace>>),
                 <<"Submit", VrEyes[2], HeadsetTexture, colorSpace>>)
      v3 == Call(v2, <<"lovrGpuDirtyTexture">>)
      v4 == Call(Call(Call(v3, <<"lovrGraphicsPushPipeline">>), <<"lovrGraphicsSetColor">>),
                 <<"lovrGraphicsSetShader", 0>>)
      v5 == Call(v4, <<"lovrGraphicsFill", HeadsetTexture, v.headset.mirrorEye>>)
  IN IF v.headset.isMirrored THEN Call(v5, <<"lovrGraphicsPopPipeline">>) ELSE v3

\* callback(userdata) returns, or raises an error that unwinds past the driver.
RenderCallback(v, returns) ==
  LET v1 == Call(v, <<"callback">>)
  IN IF returns THEN v1 ELSE Throw(v1, "error raised by the callback")

\* openvrRenderTo that makes a canvas on every call.
openvrRenderTo_NewCanvas(v, width, height, returns, gamma) ==
  LET v1 == CreateCanvas(v, width, height)
      v2 == Call(EyeCameras(v1), <<"lovrGraphicsSetCamera", v1.headset.canvas, "GL_TRUE">>)
      v3 == RenderCallback(v2, returns)
      v4 == Call(v3, <<"lovrGraphicsSetCamera", 0, "GL_FALSE">>)
  IN IF v3.error # "none" THEN v3 ELSE SubmitEyes(v4, gamma)

\* width, height: the recommended render target size; returns: whether the
\* callback returns; gamma: lovrGraphicsIsGammaCorrect().
openvrRenderTo(v, width, height, returns, gamma) ==
  LET v1 == IF v.headset.canvas = 0 THEN CreateCanvas(v, width, height) ELSE v
      v2 == Call(EyeCameras(v1), <<"lovrGraphicsSetCamera", v1.headset.canvas, "GL_TRUE">>)
      v3 == RenderCallback(v2, returns)
      v4 == Call(v3, <<"lovrGraphicsSetCamera", 0, "GL_FALSE">>)
  IN IF v3.error # "none" THEN v3 ELSE SubmitEyes(v4, gamma)

\* What an operation of the driver leaves behind.
VrStep(v) ==
  /\ headset' = v.headset
  /\ calls' = v.calls
  /\ UNCHANGED <<syncVars, probe, cacheVars, shaderVars, meshVars, textures, holds>>

\* first: the driver had no canvas when the call began.
OpenvrRenderTo ==
  \E width \in 1 .. MaxSize, height \in 1 .. MaxSize, returns \in BOOLEAN,
     gamma \in BOOLEAN :
  \E v \in {openvrRenderTo(Vr, width, height, returns, gamma)} :
    /\ VrStep(v)
    /\ op' = [name |-> "openvrRenderTo", first |-> headset.canvas = 0,
              returned |-> returns, canvas |-> headset.canvas]

OpenvrSetMirrored ==
  \E mirror \in BOOLEAN, eye \in HeadsetEyes :
    /\ VrStep(openvrSetMirrored(Vr, mirror, eye))
    /\ op' = [name |-> "openvrSetMirrored"]

\* The driver is shut down and brought up again.
OpenvrRestart ==
  \E msaa \in MsaaLevels :
    /\ VrStep(openvrInit(openvrDestroy(Vr), msaa))
    /\ op' = [name |-> "openvrDestroy"]

-----------------------------------------------------------------------------
(* Specifications *)

NoProbe == [before |-> {}, after |-> {}, done |-> TRUE, result |-> FALSE]

InitCommon ==
  /\ op = [name |-> "init"]
  /\ calls = <<>>

InitSyncVars ==
  /\ access = [b \in Buffers |-> {}]
  /\ alive = {}
  /\ sync = [i \in Access |-> <<>>]
  /\ unsynced = [b \in Buffers |-> {}]
  /\ written = {}

InitSync ==
  /\ InitCommon
  /\ InitSyncVars
  /\ InitCacheVars
  /\ InitShaderVars
  /\ InitMeshVars
  /\ InitViewVars
  /\ probe = NoProbe

NextSync == lovrBufferCreate \/ lovrBufferMap

SpecSync == InitSync /\ [][NextSync]_vars

NextDestroy == lovrBufferCreate \/ lovrBufferMap \/ lovrBufferDestroy

SpecDestroy == InitSync /\ [][NextDestroy]_vars

InitBarrier ==
  /\ InitCommon
  /\ InitSyncVars
  /\ InitCacheVars
  /\ InitShaderVars
  /\ InitMeshVars
  /\ InitViewVars
  /\ probe \in [before : Masks, after : Masks, done : {FALSE}, result : {FALSE}]

NextBarrier == EvalBarrier

SpecBarrier == InitBarrier /\ [][NextBarrier]_vars

InitCache ==
  /\ InitCommon
  /\ InitSyncVars
  /\ InitCacheVars
  /\ InitShaderVars
  /\ InitMeshVars
  /\ InitViewVars
  /\ probe = NoProbe

NextCache ==
  \/ BindFramebuffer
  \/ BindIndexBuffer
  \/ BindUniformBuffer
  \/ BindVertexArray
  \/ BindVertexBuffer
  \/ SetViewport
  \/ UseProgram

SpecCache == InitCache /\ [][NextCache]_vars

InitShader ==
  /\ InitCommon
  /\ InitSyncVars
  /\ InitCacheVars
  /\ InitShaderVars
  /\ InitMeshVars
  /\ InitViewVars
  /\ probe = NoProbe

NextShader ==
  \/ ShaderCreate
  \/ TextureCreate
  \/ ShaderSetFloat
  \/ ShaderSetInt
  \/ ShaderSetMatrix
  \/ ShaderSetTexture
  \/ ShaderBind

SpecShader == InitShader /\ [][NextShader]_vars

InitMesh ==
  /\ InitCommon
  /\ InitSyncVars
  /\ InitCacheVars
  /\ InitShaderVars
  /\ InitMeshVars
  /\ InitViewVars
  /\ probe = NoProbe

NextMesh ==
  \/ MeshCreate
  \/ MeshResize
  \/ MeshMapVertices
  \/ MeshUnmapVertices

SpecMesh == InitMesh /\ [][NextMesh]_vars

InitView ==
  /\ InitCommon
  /\ InitSyncVars
  /\ InitCacheVars
  /\ InitShaderVars
  /\ InitMeshVars
  /\ InitViewVars
  /\ probe = NoProbe

NextView ==
  \/ CreateTexture
  \/ CreateView
  \/ RetainTexture
  \/ ReleaseTexture

SpecView == InitView /\ [][NextView]_vars

\* The states a frame starts to draw from: lovrGpuInit has run on a device with
\* or without single-pass stereo, the canvases exist, and a mesh, with indices
\* just written or without any, and a shader have been created.
InitDraw ==
  /\ InitCommon
  /\ InitSyncVars
  /\ InitViewVars
  /\ probe = NoProbe
  /\ hwCount = [s \in Settings |-> 0]
  /\ changeCount = [s \in Settings |-> 0]
  /\ lastReq = [s \in Settings |-> Cached(InitialState, s)]
  /\ nreq = 0
  /\ pending = {}
  /\ \E program \in Programs, format \in Formats :
     \E garbage \in {[n \in UniformNames |-> TRUE]} :
     \E singlepass \in BOOLEAN, indexed \in {format.stride = 8} :
       LET w0 == [state |-> [InitialState EXCEPT !.supportsSinglepass = singlepass],
                  calls |-> <<>>,
                  shaders |-> [s \in ShaderIds |-> NoShader],
                  refs |-> [t \in TextureIds |-> IF t \in CanvasIds THEN 1 ELSE 0],
                  images |-> [t \in TextureIds |-> NoImage],
                  meshes |-> [mesh \in MeshIds |-> NoMesh],
                  error |-> "none"]
           w1 == lovrMeshCreate(w0, 1, MaxVertices, format, "MESH_TRIANGLES", "MESH_STATIC")
           w2 == IF indexed THEN lovrMeshWriteIndices(w1, 1, MaxVertices, 2) ELSE w1
           w3 == lovrShaderCreate(w2, 1, program, garbage)
       IN /\ state = w3.state
          /\ shaders = w3.shaders
          /\ texRefs = w3.refs
          /\ images = w3.images
          /\ meshes = w3.meshes

NextDraw ==
  \/ GpuDraw
  \/ GpuPresent

SpecDraw == InitDraw /\ [][NextDraw]_vars

NextStats ==
  \/ GpuDrawEyes
  \/ GpuUseProgram
  \/ GpuPresent

SpecStats == InitDraw /\ [][NextStats]_vars

NextTargets ==
  \/ GpuDrawTargets
  \/ GpuPresent

SpecTargets == InitDraw /\ [][NextTargets]_vars

NextStencil ==
  \/ GpuClear
  \/ GraphicsStencil
  \/ GpuPresent

\* One of the states a frame starts from: the toggles do not depend on the
\* shader, on the indices of the mesh or on single-pass support.
InitStencil ==
  /\ InitDraw
  /\ ~state.supportsSinglepass
  /\ meshes[1].indexCount = 0
  /\ "m" \in DOMAIN shaders[1].uniforms

SpecStencil == InitStencil /\ [][NextStencil]_vars

NextResolve ==
  \/ GpuDrawMipmapped
  \/ GpuClear
  \/ GpuPresent

SpecResolve == InitStencil /\ [][NextResolve]_vars

\* A mesh of any count and format, as lovrMeshCreate leaves it.
InitRange ==
  /\ InitCommon
  /\ InitSyncVars
  /\ InitShaderVars
  /\ InitViewVars
  /\ probe = NoProbe
  /\ hwCount = [s \in Settings |-> 0]
  /\ changeCount = [s \in Settings |-> 0]
  /\ lastReq = [s \in Settings |-> Cached(InitialState, s)]
  /\ nreq = 0
  /\ \E count \in 0 .. MaxVertices, format \in Formats :
     \E w \in {lovrMeshCreate([state |-> InitialState, calls |-> <<>>,
                               shaders |-> [s \in ShaderIds |-> NoShader],
                               refs |-> [t \in TextureIds |-> 0],
                               images |-> [t \in TextureIds |-> NoImage],
                               meshes |-> [mesh \in MeshIds |-> NoMesh],
                               error |-> "none"],
                              1, count, format, "MESH_TRIANGLES", "MESH_STATIC")} :
       /\ state = w.state
       /\ meshes = w.meshes

NextRange ==
  \/ MeshResize
  \/ MeshSetDrawRange
  \/ MeshWriteIndices

SpecRange == InitRange /\ [][NextRange]_vars

\* Meshes 1 .. n created one after the other, mesh i with formats[i].
RECURSIVE CreateMeshes(_, _, _)
CreateMeshes(w, n, formats) ==
  IF n = 0 THEN w
  ELSE lovrMeshCreate(CreateMeshes(w, n - 1, formats), n, MaxVertices, formats[n],
                      "MESH_TRIANGLES", "MESH_STATIC")

InitAttach ==
  /\ InitCommon
  /\ InitSyncVars
  /\ InitShaderVars
  /\ InitViewVars
  /\ probe = NoProbe
  /\ hwCount = [s \in Settings |-> 0]
  /\ changeCount = [s \in Settings |-> 0]
  /\ lastReq = [s \in Settings |-> Cached(InitialState, s)]
  /\ nreq = 0
  /\ \E formats \in [AttachIds -> Formats] :
     \E w \in {CreateMeshes([state |-> InitialState, calls |-> <<>>,
                             shaders |-> [s \in ShaderIds |-> NoShader],
                             refs |-> [t \in TextureIds |-> 0],
                             images |-> [t \in TextureIds |-> NoImage],
                             meshes |-> [mesh \in AttachIds |-> NoMesh],
                             error |-> "none"],
                            Cardinality(AttachIds), formats)} :
       /\ state = w.state
       /\ meshes = w.meshes

NextAttach ==
  \/ MeshAttachAttribute
  \/ MeshDetachAttribute

SpecAttach == InitAttach /\ [][NextAttach]_vars

InitMipmaps ==
  /\ InitCommon
  /\ InitSyncVars
  /\ InitCacheVars
  /\ InitShaderVars
  /\ InitMeshVars
  /\ InitViewVars
  /\ probe \in [shape : Shapes, done : {FALSE}, result : {0}]

NextMipmaps ==
  \/ TextureAllocate
  \/ TextureCreateMipmaps

SpecMipmaps == InitMipmaps /\ [][NextMipmaps]_vars

InitTexture ==
  /\ InitCommon
  /\ InitSyncVars
  /\ InitCacheVars
  /\ InitShaderVars
  /\ InitMeshVars
  /\ InitViewVars
  /\ probe = NoProbe

NextTextures ==
  \/ TextureCreateSlices
  \/ GpuBindTexture

SpecTexture == InitTexture /\ [][NextTextures]_vars

\* init, use, destroy, init, ...: the state cache starts as lovrGpuInit leaves
\* the zeroed static state.
NextLife ==
  \/ TextureCreateInUse
  \/ GpuBindTexture
  \/ GpuUseProgram
  \/ GpuDestroy
  \/ GpuInit

SpecLife == InitTexture /\ [][NextLife]_vars

InitBlock ==
  /\ InitCommon
  /\ InitSyncVars
  /\ InitCacheVars
  /\ InitShaderVars
  /\ InitMeshVars
  /\ InitViewVars
  /\ \E n \in 1 .. MaxBlockUniforms : \E uniforms \in [1 .. n -> BlockUniforms] :
       probe = [uniforms |-> uniforms, done |-> FALSE, result |-> <<>>]

NextBlock == ShaderBlockCreate

SpecBlock == InitBlock /\ [][NextBlock]_vars

InitHeadset ==
  /\ InitCommon
  /\ InitSyncVars
  /\ InitCacheVars
  /\ InitShaderVars
  /\ InitMeshVars
  /\ textures = [t \in ViewIds |-> NoTexture]
  /\ holds = [t \in ViewIds |-> 0]
  /\ probe = NoProbe
  /\ \E msaa \in MsaaLevels :
       headset = openvrInit([headset |-> NoHeadset, calls |-> <<>>, error |-> "none"],
                            msaa).headset

NextHeadset ==
  \/ OpenvrRenderTo
  \/ OpenvrSetMirrored
  \/ OpenvrRestart

SpecHeadset == InitHeadset /\ [][NextHeadset]_vars

NextBind ==
  \/ ShaderCreateSamplers
  \/ TextureCreate
  \/ ShaderSetFloat
  \/ ShaderSetTexture
  \/ ShaderBind

SpecBind == InitShader /\ [][NextBind]_vars

NextSamplers ==
  \/ ShaderCreateSlots
  \/ ShaderSetTexture
  \/ ShaderSetFloat
  \/ ShaderBind

SpecSamplers == InitShader /\ [][NextSamplers]_vars

NextSlots ==
  \/ TextureCreateInUse
  \/ GpuBindTexture
  \/ GpuDirtyTexture
  \/ GpuDestroy
  \/ GpuInit

SpecSlots == InitTexture /\ [][NextSlots]_vars

NextUnits ==
  \/ TextureCreateInUse
  \/ GpuBindTexture
  \/ GpuDirtyTexture
  \/ TextureSetFilter
  \/ TextureSetWrap

SpecUnits == InitTexture /\ [][NextUnits]_vars

\* Three meshes, those that are not drawn with a position and a colour, and
\* a shader that has a location for the position and for the colour.
InitLayout ==
  /\ InitCommon
  /\ InitSyncVars
  /\ InitViewVars
  /\ probe = NoProbe
  /\ hwCount = [s \in Settings |-> 0]
  /\ changeCount = [s \in Settings |-> 0]
  /\ lastReq = [s \in Settings |-> Cached(InitialState, s)]
  /\ nreq = 0
  /\ pending = {}
  /\ \E formats \in {f \in [AttachIds -> Formats] :
                       \A mesh \in AttachIds \ BoundIds : Len(f[mesh].attributes) = 2} :
     \E program \in {p \in Programs : Cardinality(DOMAIN p.attributes) = 2} :
     \E w \in {lovrShaderCreate(
                  CreateMeshes([state |-> InitialState, calls |-> <<>>,
                                shaders |-> [s \in ShaderIds |-> NoShader],
                                refs |-> [t \in TextureIds |-> 0],
                                images |-> [t \in TextureIds |-> NoImage],
                                meshes |-> [mesh \in AttachIds |-> NoMesh],
                                error |-> "none"],
                               Cardinality(AttachIds), formats),
                  1, program, [n \in UniformNames |-> TRUE])} :
       /\ state = w.state
       /\ meshes = w.meshes
       /\ shaders = w.shaders
       /\ texRefs = w.refs
       /\ images = w.images

NextLayout ==
  \/ MeshAttachBound
  \/ MeshDetachBound
  \/ MeshSetAttributeEnabled
  \/ MeshBind

SpecLayout == InitLayout /\ [][NextLayout]_vars

\* The meshes and the shader of InitLayout; the mesh that is drawn has a colour
\* of its own or takes it from mesh 2.
InitUpload ==
  /\ InitCommon
  /\ InitSyncVars
  /\ InitViewVars
  /\ probe = NoProbe
  /\ hwCount = [s \in Settings |-> 0]
  /\ changeCount = [s \in Settings |-> 0]
  /\ lastReq = [s \in Settings |-> Cached(InitialState, s)]
  /\ nreq = 0
  /\ pending = {}
  /\ \E formats \in {f \in [AttachIds -> Formats] :
                       \A mesh \in AttachIds \ BoundIds : Len(f[mesh].attributes) = 2} :
     \E program \in {p \in Programs : Cardinality(DOMAIN p.attributes) = 2} :
     \E attached \in {Len(formats[1].attributes) = 1} :
     \E w0 \in {lovrShaderCreate(
                   CreateMeshes([state |-> InitialState, calls |-> <<>>,
                                 shaders |-> [s \in ShaderIds |-> NoShader],
                                 refs |-> [t \in TextureIds |-> 0],
                                 images |-> [t \in TextureIds |-> NoImage],
                                 meshes |-> [mesh \in AttachIds |-> NoMesh],
                                 error |-> "none"],
                                Cardinality(AttachIds), formats),
                   1, program, [n \in UniformNames |-> TRUE])} :
     \E w \in {IF attached
                 THEN lovrMeshAttachAttribute(w0, 1, 2, "lovrVertexColor", 0)
                 ELSE w0} :
       /\ state = w.state
       /\ meshes = w.meshes
       /\ shaders = w.shaders
       /\ texRefs = w.refs
       /\ images = w.images

NextUpload ==
  \/ MeshMapSources
  \/ MeshWriteSources
  \/ GpuDrawEyes
  \/ GpuPresent

SpecUpload == InitUpload /\ [][NextUpload]_vars

-----------------------------------------------------------------------------
(* Claims: synchronization tracker *)

\* C4: whenever a buffer is mapped, every access made by its earlier maps has
\* been covered by a barrier whose source set contains it, issued since that
\* access (by this map or by a map of any other buffer): no barrier is missed.
C4_NoMissedBarrier ==
  op.name = "lovrBufferMap" => op.hazard = {}

\* A buffer is mapped again after another buffer's barrier cleared its bit.
C4_Witness ==
  /\ op.name = "lovrBufferMap"
  /\ op.again
  /\ op.before = {}
  /\ Len(calls) = 1

\* C5: a map of a buffer with a pending access issues exactly one
\* gpu_sync(before, {upload write}) and then maps; a map of a buffer with no
\* pending access issues no gpu_sync.
C5_OneBarrierPerPendingMap ==
  op.name = "lovrBufferMap" =>
    calls = (IF op.before # {}
               THEN << <<"gpu_sync", op.before, {GPU_WRITE_UPLOAD}>> >>
               ELSE <<>>)
            \o << <<"gpu_buffer_map", op.buffer>> >>

C5_Witness ==
  /\ op.name = "lovrBufferMap"
  /\ op.before = {GPU_WRITE_UPLOAD}
  /\ Len(calls) = 2
  /\ calls[1][1] = "gpu_sync"

BarrierSet == calls'[1][2]

\* C22: when lovrBufferMap issues a barrier for the prior access set B, every
\* resource on the list of a category i of B, the mapped buffer included, has
\* lost the pending bit i, and that list holds nothing but what this map
\* records after the barrier (the mapped buffer, on the upload-write list);
\* the bits of the categories outside B are as they were on every resource,
\* but for the upload-write bit that the map records on the mapped buffer.
C22_BarrierClearsItsCategories ==
  [][(op'.name = "lovrBufferMap" /\ calls'[1][1] = "gpu_sync") =>
       /\ BarrierSet = access[op'.buffer]
       /\ \A i \in BarrierSet :
            /\ \A b \in Range(sync[i]) :
                 i \in access'[b] => (b = op'.buffer /\ i = GPU_WRITE_UPLOAD)
            /\ op'.buffer \in Range(sync[i])
            /\ sync'[i] = (IF i = GPU_WRITE_UPLOAD THEN <<op'.buffer>> ELSE <<>>)
       /\ \A i \in Access \ BarrierSet :
            /\ \A b \in Buffers :
                 (i \in access'[b]) =
                   (i \in access[b] \/ (b = op'.buffer /\ i = GPU_WRITE_UPLOAD))
            /\ sync'[i] = (IF i = GPU_WRITE_UPLOAD THEN Append(sync[i], op'.buffer)
                           ELSE sync[i])]_vars

\* A barrier was issued by a map of one buffer while another buffer was on the
\* upload-write list: the other buffer has lost its bit.
C22_Witness ==
  /\ op.name = "lovrBufferMap"
  /\ calls[1][1] = "gpu_sync"
  /\ \E b \in alive \ {op.buffer} : b \in written /\ access[b] = {}
  /\ sync[GPU_WRITE_UPLOAD] = <<op.buffer>>

-----------------------------------------------------------------------------
(* Claims: pipeline toggles of a draw *)

\* The last operation issued a call of one of these names.
Issued(names) == \E i \in 1 .. Len(calls) : calls[i][1] \in names

\* The last operation enabled or disabled this capability.
Switched(capability) ==
  \E i \in 1 .. Len(calls) :
    calls[i][1] \in {"glEnable", "glDisable"} /\ calls[i][2] = capability

\* C2: a draw whose pipeline asks for the blend mode and blend alpha mode the
\* cache already holds issues no glBlendEquation and no glBlendFuncSeparate,
\* so the same blend mode drawn with twice reaches the device once; and a draw
\* that leaves culling, the depth test, the depth write, the line width, the
\* winding or the wireframe mode as cached issues no call for that toggle.
C2_UnchangedToggleIssuesNoCall ==
  op.name = "lovrGpuDraw" =>
    /\ op.unchanged.blendMode => ~Issued({"glBlendEquation", "glBlendFuncSeparate"})
    /\ op.unchanged.culling => ~Switched("GL_CULL_FACE")
    /\ op.unchanged.depthTest => ~Issued({"glDepthFunc"}) /\ ~Switched("GL_DEPTH_TEST")
    /\ op.unchanged.depthWrite => ~Issued({"glDepthMask"})
    /\ op.unchanged.lineWidth => ~Issued({"glLineWidth"})
    /\ op.unchanged.winding => ~Issued({"glFrontFace"})
    /\ op.unchanged.wireframe => ~Issued({"glPolygonMode"})

\* The second of two draws in a row with the multiply blend mode, which only an
\* earlier draw can have put in the cache: it draws without a blend call.
C2_Witness ==
  /\ op.name = "lovrGpuDraw"
  /\ op.error = "none"
  /\ op.blendMode = "BLEND_MULTIPLY"
  /\ op.unchanged.blendMode
  /\ state.stats.drawCalls = 2
  /\ Issued({"glDrawArrays", "glDrawElements"})
  /\ ~Issued({"glBlendEquation", "glBlendFuncSeparate"})

-----------------------------------------------------------------------------
(* Claims: texture views *)

\* The live views of texture t, now and before the last operation.
ViewsOf(t) == {v \in ViewIds : textures[v].alive /\ textures[v].source = t}

\* The textures the last operation destroyed.
Destroyed == {t \in ViewIds : op.before[t].alive /\ ~textures[t].alive}

\* The references to t the last release dropped: the one released by the
\* caller, and one for each destroyed view of t.
Dropped(t) ==
  (IF t = op.texture THEN 1 ELSE 0)
    + Cardinality({v \in Destroyed : op.before[v].source = t})

\* C3: every live texture's reference count is the references the application
\* holds plus one for each live view of it, and the source of a live view is
\* alive. lovrTextureCreateView adds exactly one reference to the source when
\* it succeeds and changes nothing when it fails. A release destroys a texture
\* exactly when the references it drops are all the texture had, destroying a
\* view drops exactly one reference of its source, also along a chain of views,
\* and gpu_texture_destroy is called once for each destroyed texture only.
C3_ViewsKeepSourcesAlive ==
  /\ \A t \in ViewIds :
       /\ textures[t].alive =>
            /\ textures[t].refs = holds[t] + Cardinality(ViewsOf(t))
            /\ textures[t].refs >= 1
            /\ textures[t].source # 0 => textures[textures[t].source].alive
  /\ op.name = "lovrTextureCreateView" =>
       IF op.ok
         THEN /\ textures[op.texture] = [alive |-> TRUE, refs |-> 1, source |-> op.source]
              /\ textures[op.source] =
                   [op.before[op.source] EXCEPT !.refs = @ + 1]
              /\ \A t \in ViewIds \ {op.texture, op.source} : textures[t] = op.before[t]
         ELSE textures = op.before
  /\ op.name = "lovrRelease" =>
       /\ \A t \in ViewIds :
            op.before[t].alive =>
              /\ t \in Destroyed <=> Dropped(t) = op.before[t].refs
              /\ t \notin Destroyed =>
                   textures[t] = [op.before[t] EXCEPT !.refs = @ - Dropped(t)]
       /\ {calls[i][2] : i \in 1 .. Len(calls)} = Destroyed
       /\ Len(calls) = Cardinality(Destroyed)

\* The last reference to a view of a view goes: the view, its source and the
\* source of that are destroyed, in this order.
C3_Witness ==
  /\ op.name = "lovrRelease"
  /\ calls = << <<"gpu_texture_destroy", 3>>, <<"gpu_texture_destroy", 2>>,
                <<"gpu_texture_destroy", 1>> >>
  /\ op.before[3].source = 2
  /\ op.before[2].source = 1

-----------------------------------------------------------------------------
(* Claims: state cache *)

\* C1: for every cached binding, the device calls issued equal the number of
\* requests whose value differed from the request before (the initial record
\* for the first); a request of the value on record issues no device call and
\* leaves the record as it was, and any other request issues exactly one call
\* and records the value.
C1_CallsEqualChanges ==
  /\ \A s \in Settings : hwCount[s] = changeCount[s]
  /\ op.name = "request" =>
       /\ Cached(state, op.setting) = op.value
       /\ IF op.value = op.prev THEN calls = <<>> ELSE Len(calls) = 1

\* A redundant request after the binding has changed twice.
C1_Witness ==
  /\ op.name = "request"
  /\ op.value = op.prev
  /\ calls = <<>>
  /\ hwCount[op.setting] = 2
  /\ nreq = 3

-----------------------------------------------------------------------------
(* Claims: shader uniforms *)

\* The uniform the last setter call named, as it is now.
SetUniform == shaders[op.shader].uniforms[op.uniform]

\* The glUniform* uploads among the device calls of the last operation.
Uploads == {i \in 1 .. Len(calls) : calls[i][1] = "glUniform"}

\* C7: after a typed setter call on a present uniform with the matching type
\* and count elements that fit the uniform's capacity, the first count
\* elements of the uniform's cached value are the elements given and the
\* elements after them are as before, whatever sets and flushes came before.
C7_SetThenGet ==
  (op.name \in Setters /\ op.result # "absent" /\ op.typeOk /\ op.fits) =>
    /\ op.result = "ok"
    /\ SubSeq(SetUniform.value, 1, op.count) = op.data
    /\ op.tailKept

\* A clean uniform is given new bytes for a part of its value.
C7_Witness ==
  /\ op.name = "lovrShaderSetMatrix"
  /\ op.result = "ok"
  /\ ~op.same
  /\ op.count = 2
  /\ ~op.wasDirty
  /\ SetUniform.value = <<1, 0, 1, 1>>

\* C8: a setter call on a present uniform fails exactly when the type differs
\* or count elements exceed the capacity, and a failed call leaves every
\* uniform's cached value and dirty flag as they were and issues no call.
C8_FailedSetMutatesNothing ==
  (op.name \in Setters /\ op.result # "absent") =>
    /\ op.result = "error" <=> (~op.typeOk \/ ~op.fits)
    /\ op.result = "error" => (op.kept /\ calls = <<>>)

\* An over-capacity set of a clean uniform of the right type fails.
C8_Witness ==
  /\ op.name = "lovrShaderSetFloat"
  /\ op.result = "error"
  /\ op.typeOk
  /\ ~op.fits
  /\ ~SetUniform.dirty
  /\ op.kept

\* C9: a set whose bytes equal the cached bytes changes neither the value nor
\* the dirty flag and issues no call; and a flush uploads exactly the uniforms
\* whose bytes a set has changed since the flush before (or that
\* lovrShaderCreate left dirty), each once, so a repeated set adds no upload
\* (a sampler is never uploaded: the flush binds its textures to their slots).
C9_SameBytesNoUpload ==
  /\ (op.name \in Setters /\ op.same) => (op.kept /\ calls = <<>>)
  /\ \A s \in ShaderIds : \A n \in DOMAIN shaders[s].uniforms :
       shaders[s].uniforms[n].dirty <=> n \in pending
  /\ op.name = "lovrShaderBind" =>
       LET due == {n \in op.pending :
                     shaders[op.shader].uniforms[n].type # "UNIFORM_SAMPLER"}
       IN /\ {calls[i][2] : i \in Uploads} = due
          /\ Cardinality(Uploads) = Cardinality(due)

\* set x to [1], flush, set x to [1] again, flush: the last flush uploads nothing.
C9_Witness ==
  /\ op.name = "lovrShaderBind"
  /\ op.redundant = {"lovrPointSize"}
  /\ shaders[op.shader].uniforms["lovrPointSize"].value = <<1>>
  /\ Uploads = {}

\* The uploads of uniform n among the device calls of the last operation.
UploadsOf(n) == {i \in Uploads : calls[i][2] = n}

\* C24: after a lovrShaderBind that returned, no uniform of the shader is
\* dirty; every uniform that was dirty and is not a sampler has been uploaded
\* once, with its count and its whole cached value; every texture of every
\* sampler is the one its slot holds (the default texture for NULL); and the
\* buffer of every block (0 without a source) is the one its binding holds.
C24_BindLeavesNothingOutstanding ==
  (op.name = "lovrShaderBind" /\ op.error = "none") =>
    LET shader == shaders[op.shader]
        uniforms == shader.uniforms
    IN /\ \A n \in DOMAIN uniforms : ~uniforms[n].dirty
       /\ \A n \in op.dirty :
            uniforms[n].type # "UNIFORM_SAMPLER" =>
              /\ Cardinality(UploadsOf(n)) = 1
              /\ \A i \in UploadsOf(n) :
                   calls[i][3] = uniforms[n].count /\ calls[i][4] = uniforms[n].value
       /\ \A n \in DOMAIN uniforms :
            uniforms[n].type = "UNIFORM_SAMPLER" =>
              \A i \in 0 .. (uniforms[n].count - 1) :
                state.textures[uniforms[n].baseTextureSlot + i]
                  = (IF uniforms[n].value[i + 1] = 0 THEN state.defaultTexture
                     ELSE uniforms[n].value[i + 1])
       /\ \A i \in DOMAIN shader.blocks :
            state.uniformBuffers[shader.blocks[i].binding] = shader.blocks[i].source

-----------------------------------------------------------------------------
(* Claims: meshes *)

\* C10: lovrMeshResize(mesh, n) with n at most the mesh's vertex count (its
\* capacity) changes nothing: the vertex count, the CPU store, the GPU buffer
\* and the state cache are as before and no device call is issued.
C10_ResizeWithinCapacityIsNoOp ==
  (op.name = "lovrMeshResize" /\ op.count <= op.oldCount) =>
    /\ op.kept
    /\ calls = <<>>
    /\ meshes[op.mesh].count = op.oldCount

\* A mesh grown to the capacity 4 is resized to 3, with vertices written.
C10_Witness ==
  /\ op.name = "lovrMeshResize"
  /\ op.count = 3
  /\ op.oldCount = 4
  /\ op.kept
  /\ meshes[op.mesh].data = <<1, 0, 1>>
  /\ meshes[op.mesh].dirtyEnd = 3


\* C11: lovrMeshResize(mesh, n) with n above the mesh's vertex count (its
\* capacity) keeps the vertices stored so far and makes the capacity the least
\* power of two that is at least n: the vertex count is that power of two, and
\* the CPU store and the GPU buffer hold that many vertices.
C11_GrowthKeepsVerticesAndRoundsCapacity ==
  (op.name = "lovrMeshResize" /\ op.count > op.oldCount) =>
    /\ op.preserved
    /\ meshes[op.mesh].count = nextPo2(op.count)
    /\ Len(meshes[op.mesh].data) = meshes[op.mesh].count
    /\ meshes[op.mesh].gpuSize = meshes[op.mesh].count * meshes[op.mesh].stride


\* C12: the draw range of every mesh lies within its index count when it has
\* indices and within its vertex count otherwise, whatever lovrMeshSetDrawRange,
\* lovrMeshWriteIndices and lovrMeshResize calls were made; a lovrMeshSetDrawRange
\* whose range is out of bounds fails and leaves the range as it was.
InRange(m) ==
  LET limit == IF m.indexCount > 0 THEN m.indexCount ELSE m.count
  IN /\ m.rangeStart >= 0 /\ m.rangeStart <= limit
     /\ m.rangeCount >= 0 /\ m.rangeCount <= limit - m.rangeStart

C12_DrawRangeWithinCounts ==
  /\ \A mesh \in Created : InRange(meshes[mesh])
  /\ (op.name = "lovrMeshSetDrawRange" /\ op.error # "none") => op.kept


\* The bytes of the CPU vertex store of mesh m.
StoreBytes(m) == Len(m.data) * m.stride

\* C25: after a lovrMeshResize that grew the mesh, the CPU vertex store and the
\* GPU vertex buffer hold (vertex count * stride) bytes, the vertex count being
\* the one lovrMeshGetVertexCount reports; and in every state every vertex
\* below the reported count of a mesh lies inside both stores.
C25_ReportedCountWithinStores ==
  /\ (op.name = "lovrMeshResize" /\ op.count > op.oldCount) =>
       LET m == meshes[op.mesh]
       IN /\ StoreBytes(m) = lovrMeshGetVertexCount(World, op.mesh) * m.stride
          /\ m.gpuSize = lovrMeshGetVertexCount(World, op.mesh) * m.stride
  /\ \A mesh \in Created :
       \A index \in 0 .. (lovrMeshGetVertexCount(World, mesh) - 1) :
         /\ (index + 1) * meshes[mesh].stride <= StoreBytes(meshes[mesh])
         /\ (index + 1) * meshes[mesh].stride <= meshes[mesh].gpuSize

-----------------------------------------------------------------------------
(* Claims: attached attributes *)

\* mesh -> other: mesh has an attribute attached from the other mesh.
AttachedFrom(mesh) ==
  {meshes[mesh].attachments[key].mesh : key \in DOMAIN meshes[mesh].attachments} \ {mesh}

\* The meshes reached from mesh along at most n attachments, n >= 1.
RECURSIVE Sources(_, _)
Sources(mesh, n) ==
  IF n = 1 THEN AttachedFrom(mesh)
  ELSE LET near == Sources(mesh, n - 1)
       IN near \cup UNION {AttachedFrom(other) : other \in near}

FormatNames(mesh) == {a.name : a \in Range(meshes[mesh].format)}

\* C13: whatever lovrMeshAttachAttribute and lovrMeshDetachAttribute calls were
\* made, no mesh reaches itself along attachments and the only attributes a
\* mesh holds from itself are those of its own format (an attach of a mesh to
\* itself fails); an attach by a mesh that is an attachment source fails and
\* changes no mesh's attachment map and no reference count.
C13_AttachmentsAcyclic ==
  /\ \A mesh \in AttachIds : mesh \notin Sources(mesh, Cardinality(AttachIds))
  /\ \A mesh \in AttachIds : \A key \in DOMAIN meshes[mesh].attachments :
       meshes[mesh].attachments[key].mesh = mesh => key \in FormatNames(mesh)
  /\ (op.name = "lovrMeshAttachAttribute" /\ op.mesh = op.other) => op.error # "none"
  /\ (op.name = "lovrMeshAttachAttribute" /\ op.source) =>
       op.error # "none" /\ op.unchanged

\* A mesh that attributes were attached from asked to attach one itself, while
\* another mesh holds a chain of two attachments.
C13_Witness ==
  /\ op.name = "lovrMeshAttachAttribute" /\ op.source /\ op.mesh # op.other
  /\ \E mesh \in AttachIds : \E other \in AttachedFrom(mesh) : AttachedFrom(other) # {}


\* C14: a mesh holds one attribute per name: every attribute of its format is
\* registered at creation as attached from the mesh itself, enabled, and stays
\* so; lovrMeshAttachAttribute fails when the mesh already has an attribute of
\* the name, lovrMeshDetachAttribute fails for an attribute the mesh holds from
\* itself, and both failures leave every attachment map as it was.
C14_AttributeNamesUnique ==
  /\ \A mesh \in AttachIds : \A i \in DOMAIN meshes[mesh].format :
       LET name == meshes[mesh].format[i].name
       IN /\ name \in DOMAIN meshes[mesh].attachments
          /\ meshes[mesh].attachments[name].mesh = mesh
          /\ meshes[mesh].attachments[name].attributeIndex = i - 1
          /\ meshes[mesh].attachments[name].enabled
  /\ (op.name = "lovrMeshAttachAttribute" /\ op.had) =>
       op.error # "none" /\ op.unchanged
  /\ (op.name = "lovrMeshDetachAttribute" /\ op.own) =>
       op.error # "none" /\ op.unchanged

\* A mesh that holds an attribute from another mesh was asked to detach an
\* attribute of its own format.
C14_Witness ==
  /\ op.name = "lovrMeshDetachAttribute" /\ op.own
  /\ AttachedFrom(op.mesh) # {}


-----------------------------------------------------------------------------
(* Claims: textures *)

\* The largest pixel dimension of a shape: the depth of a volume texture is
\* one, the layers of an array and the faces of a cube are not.
MaxDimension(s) ==
  IF s.type = "TEXTURE_VOLUME" THEN MAX(MAX(s.width, s.height), s.depth)
  ELSE MAX(s.width, s.height)

\* C15: a texture created with the automatic mipmap count gets
\* floor(log2(largest pixel dimension)) + 1 mipmaps, whatever its type, width,
\* height and depth or layer count, in lovrTextureAllocate of part_001 and in
\* lovrTextureCreate of part_002.
C15_AutomaticMipmapCount ==
  probe.done => probe.result = log2(MaxDimension(probe.shape)) + 1


\* C16: creating a cube texture from a number of images other than 6 fails
\* with an error, and no cube texture with a depth other than 6 exists.
C16_CubeHasSixImages ==
  /\ (op.name = "lovrTextureCreate" /\ op.type = "TEXTURE_CUBE" /\ op.depth # 6) =>
       op.error # "none"
  /\ \A t \in TextureIds :
       (texRefs[t] > 0 /\ images[t].type = "TEXTURE_CUBE") => images[t].depth = 6


-----------------------------------------------------------------------------
(* Claims: draws to several canvases *)

\* The canvases of a set are all of one size.
SameDimensions(canvas) ==
  \A i, j \in DOMAIN canvas :
    /\ Canvases[canvas[i]].width = Canvases[canvas[j]].width
    /\ Canvases[canvas[i]].height = Canvases[canvas[j]].height

\* C17: a draw to canvases that are not all of one size fails with the error
\* that names the dimensions, and issues no draw call.
C17_MixedDimensionsNeverDrawn ==
  (op.name = "lovrGpuDraw" /\ ~SameDimensions(op.canvas)) =>
    /\ op.error = "All multicanvas canvases must have the same dimensions"
    /\ ~op.drew

-----------------------------------------------------------------------------
(* Claims: the life of the state cache *)

\* C19: lovrGpuDestroy releases the default texture and the texture of every
\* slot, and after it or the lovrGpuInit that follows it no cached binding is
\* left over from before: neither a texture slot nor the default texture refers
\* to a Texture that has been freed, and once lovrGpuInit has run again the
\* cached program, framebuffer and canvas set are those of a fresh device.
C19_DestroyLeavesNoBinding ==
  /\ op.name \in {"lovrGpuDestroy", "lovrGpuInit"} => Freed(state, texRefs) = {}
  /\ op.name = "lovrGpuInit" =>
       /\ state.program = 0
       /\ state.framebuffer = 0
       /\ state.canvasCount = 0


\* The slots of the state cache that record texture t.
SlotsOf(t) == {i \in TextureSlots : state.textures[i] = t}

\* The reference of the creator of a texture that exists: the application, or
\* state.defaultTexture for the default texture.
CreatorRefs(t) == IF texRefs[t] > 0 THEN 1 ELSE 0

\* C26: whatever lovrGpuBindTexture, lovrGpuDirtyTexture and lovrGpuDestroy
\* calls were made, the references the state cache holds on a texture, those
\* beyond its creator's, are as many as the slots that record it, and a
\* texture that a slot records has not been destroyed.
C26_SlotReferencesBalanced ==
  \A t \in TextureIds :
    /\ texRefs[t] - CreatorRefs(t) = Cardinality(SlotsOf(t))
    /\ SlotsOf(t) # {} => texRefs[t] > 0

-----------------------------------------------------------------------------
(* Claims: shader blocks *)

\* The bytes a uniform takes in a block: a matrix its components squared times
\* four, an array sixteen per element, a scalar or a vector one slot of sixteen.
PackedSize(u) ==
  IF u.type = "UNIFORM_MATRIX" THEN u.components * u.components * 4
  ELSE IF u.count > 1 THEN u.count * 16
  ELSE 16

RECURSIVE PackedBefore(_, _)
PackedBefore(uniforms, i) ==
  IF i <= 1 THEN 0 ELSE PackedBefore(uniforms, i - 1) + PackedSize(uniforms[i - 1])

\* C18: lovrShaderBlockCreate gives every uniform, in the order of the list,
\* the offset that is the sum of the packed sizes of the uniforms before it,
\* records the offsets in the uniform list of the block, and sizes the buffer
\* of the block to the packed total.
C18_BlockOffsetsPacked ==
  probe.done =>
    /\ \A i \in 1 .. probe.result.block.uniformCount :
         probe.result.block.uniforms[i].offset = PackedBefore(probe.uniforms, i)
    /\ probe.result.block.totalSize =
         PackedBefore(probe.uniforms, Len(probe.uniforms) + 1)


-----------------------------------------------------------------------------
(* Claims: the headset driver *)

\* The positions in the calls of the last operation of the calls named name.
CallsOf(name) == {i \in 1 .. Len(calls) : calls[i][1] = name}

\* The positions where the stereo camera is set, and where it is cleared.
CameraSet == {i \in CallsOf("lovrGraphicsSetCamera") : calls[i][3] = "GL_TRUE"}
CameraCleared == {i \in CallsOf("lovrGraphicsSetCamera") : calls[i][3] = "GL_FALSE"}

\* C20: every openvrRenderTo invokes the callback once, after it has set the
\* stereo camera on the headset canvas; once the callback has returned it clears
\* the camera and then submits the left and the right eye to the compositor,
\* once each and in this order, and it submits nothing before or without the
\* return; it creates the headset canvas when the driver has none, on the
\* first call, and uses the same canvas on every later call.
C20_CallbackOncePerEyePair ==
  op.name = "openvrRenderTo" =>
    /\ Cardinality(CallsOf("callback")) = 1
    /\ Cardinality(CameraSet) = 1
    /\ \A i \in CameraSet : \A j \in CallsOf("callback") :
         i < j /\ calls[i][2] = headset.canvas
    /\ \A i \in CallsOf("Submit") : \A j \in CallsOf("callback") \cup CameraCleared : j < i
    /\ IF op.returned
         THEN /\ Cardinality(CameraCleared) = 1
              /\ \A i \in CameraCleared : \A j \in CallsOf("callback") : j < i
              /\ \E i, j \in CallsOf("Submit") :
                   /\ CallsOf("Submit") = {i, j} /\ i < j
                   /\ calls[i][2] = "EVREye_Eye_Left" /\ calls[j][2] = "EVREye_Eye_Right"
         ELSE CallsOf("Submit") = {}
    /\ Cardinality(CallsOf("lovrCanvasCreate")) = (IF op.first THEN 1 ELSE 0)
    /\ headset.canvas # 0
    /\ ~op.first => headset.canvas = op.canvas

\* A later call, on the canvas that an earlier call created, whose callback
\* returned: both eyes were submitted.
C20_Witness ==
  /\ op.name = "openvrRenderTo" /\ ~op.first /\ op.returned
  /\ Cardinality(CallsOf("Submit")) = 2


-----------------------------------------------------------------------------
(* Claims: cached settings and the device *)

\* The calls of the step just taken that are glEnable or glDisable of a
\* capability.
Toggled(capability) ==
  \E i \in 1 .. Len(calls') :
    /\ calls'[i][1] \in {"glEnable", "glDisable"}
    /\ calls'[i][2] = capability

\* The step just taken issued a call of this name.
IssuedNow(name) == \E i \in 1 .. Len(calls') : calls'[i][1] = name

\* C21: a cached setting record changes only in a step that also issues the
\* device call of that setting: the depth-write record with glDepthMask, the
\* stencil, depth-test and culling enables with glEnable or glDisable of the
\* capability, the line width, winding and wireframe records with their calls;
\* this is what keeps every record equal to the value last applied to the
\* device, also after lovrGraphicsStencil and lovrGpuClear.
C21_RecordChangesWithDeviceCall ==
  [][/\ state'.depthWrite # state.depthWrite => IssuedNow("glDepthMask")
     /\ state'.stencilEnabled # state.stencilEnabled => Toggled("GL_STENCIL_TEST")
     /\ state'.depthEnabled # state.depthEnabled => Toggled("GL_DEPTH_TEST")
     /\ state'.culling # state.culling => Toggled("GL_CULL_FACE")
     /\ state'.lineWidth # state.lineWidth => IssuedNow("glLineWidth")
     /\ state'.winding # state.winding => IssuedNow("glFrontFace")
     /\ state'.wireframe # state.wireframe => IssuedNow("glPolygonMode")]_vars


-----------------------------------------------------------------------------
(* Claims: the vertex array of a mesh *)

\* The calls of the step just taken on attribute slot i, by name.
SlotCalls(names, i) ==
  {k \in 1 .. Len(calls') : calls'[k][1] \in names /\ calls'[k][2] = i}

AttributeSlots == 0 .. (MAX_ATTACHMENTS - 1)

\* C27: lovrMeshBind issues an enable or disable, a divisor or an attribute
\* pointer call for a slot only when the enabled flag, the divisor or the
\* source (mesh and attribute index) of the slot's binding differs from the
\* layout recorded at the bind before; a bind with the attachments and the
\* shader of the bind before issues none of these calls.
C27_BindReissuesChangedSlotsOnly ==
  [][op'.name = "lovrMeshBind" =>
       LET previous == meshes[op'.mesh].layout
           current == EffectiveLayout(op'.mesh, op'.shader)
       IN \A i \in AttributeSlots :
            /\ SlotCalls({"glEnableVertexAttribArray", "glDisableVertexAttribArray"}, i) # {}
                 => previous[i].enabled # current[i].enabled
            /\ SlotCalls({"glVertexAttribDivisor"}, i) # {}
                 => previous[i].divisor # current[i].divisor
            /\ SlotCalls({"glVertexAttribPointer", "glVertexAttribIPointer"}, i) # {}
                 => \/ previous[i].mesh # current[i].mesh
                    \/ previous[i].attributeIndex # current[i].attributeIndex
            /\ previous[i] = current[i] =>
                 SlotCalls({"glEnableVertexAttribArray", "glDisableVertexAttribArray",
                            "glVertexAttribDivisor", "glVertexAttribPointer",
                            "glVertexAttribIPointer"}, i) = {}]_vars

\* A mesh with an enabled attribute attached from another mesh has been bound
\* again with nothing changed: the bind issued no call at all.
C27_Witness ==
  /\ op.name = "lovrMeshBind"
  /\ op.error = "none"
  /\ meshes[op.mesh].layout = EffectiveLayout(op.mesh, op.shader)
  /\ \E i \in AttributeSlots :
       meshes[op.mesh].layout[i].enabled /\ meshes[op.mesh].layout[i].mesh # op.mesh
  /\ calls = <<>>

\* C28: after every lovrMeshBind that returned, the source (mesh and attribute
\* index) and the divisor that the device holds for each enabled attribute
\* slot of the mesh's vertex array are those of the recorded layout, and the
\* slot is enabled on the device, whatever attach, detach, enable, disable and
\* bind operations came before.
C28_VertexArrayMatchesLayout ==
  (op.name = "lovrMeshBind" /\ op.error = "none") =>
    \A i \in AttributeSlots :
      meshes[op.mesh].layout[i].enabled =>
        meshes[op.mesh].vertexArray[i] = meshes[op.mesh].layout[i]

-----------------------------------------------------------------------------
(* Claims: the passes of a draw *)

DrawCallNames ==
  {"glDrawArrays", "glDrawElements", "glDrawArraysInstanced", "glDrawElementsInstanced"}

\* The draw calls of the step just taken, as positions in its calls.
DrawCallsIssued == {k \in 1 .. Len(calls') : calls'[k][1] \in DrawCallNames}

\* The value of lovrEye on the device when call k of the step is issued: the
\* last upload of the uniform before k, or the value the device held before
\* the step, which is the cached one unless an upload was outstanding.
EyeAt(shader, k) ==
  LET uploads == {j \in 1 .. (k - 1) : /\ calls'[j][1] = "glUniform"
                                        /\ calls'[j][2] = "lovrEye"}
  IN IF uploads # {}
       THEN calls'[CHOOSE j \in uploads : \A l \in uploads : l <= j][4]
     ELSE IF shaders[shader].uniforms["lovrEye"].dirty THEN <<"outstanding">>
     ELSE shaders[shader].uniforms["lovrEye"].value

\* The last viewport call before call k of the step, or the viewport the
\* cache recorded before the step.
ViewportAt(k) ==
  LET sets == {j \in 1 .. (k - 1) : calls'[j][1] \in {"glViewport", "glViewportArrayv"}}
  IN IF sets # {}
       THEN calls'[CHOOSE j \in sets : \A l \in sets : l <= j]
       ELSE <<"glViewport", state.viewport>>

-----------------------------------------------------------------------------
(* Claims: the diagnostic counters *)

\* The calls of the step just taken with one of the names.
IssuedCalls(names) == {k \in 1 .. Len(calls') : calls'[k][1] \in names}

\* C30: lovrGpuPresent leaves every diagnostic counter at zero; every other
\* operation adds to drawCalls the number of draw calls it issues and to
\* shaderSwitches the number of glUseProgram calls it issues, which is one
\* when it changes the current program and none when it does not, so that
\* each counter is the number of draw calls, and of program changes, since
\* the last lovrGpuPresent; a lovrGpuUseProgram of the current program adds
\* nothing.
C30_CountersCountSincePresent ==
  [][IF op'.name = "lovrGpuPresent"
       THEN \A c \in DOMAIN state'.stats : state'.stats[c] = 0
       ELSE /\ state'.stats.drawCalls
                 = state.stats.drawCalls + Cardinality(IssuedCalls(DrawCallNames))
            /\ state'.stats.shaderSwitches
                 = state.stats.shaderSwitches + Cardinality(IssuedCalls({"glUseProgram"}))
            /\ Cardinality(IssuedCalls({"glUseProgram"}))
                 = IF state'.program # state.program THEN 1 ELSE 0]_vars

\* After a present, two draw calls with the program that was current and
\* then a lovrGpuUseProgram of the same program: draw calls are counted and
\* no shader switch is.
C30_Witness ==
  /\ op.name = "lovrGpuUseProgram"
  /\ calls = <<>>
  /\ state.stats.drawCalls = 2
  /\ state.stats.shaderSwitches = 0

-----------------------------------------------------------------------------
(* Claims: resolving a canvas *)

\* lovrCanvasResolve has work to do for a canvas with samples or mipmaps.
NeedsResolve(c) == Canvases[c].msaa > 0 \/ Canvases[c].mipmaps

\* The positions in the calls of the step just taken where canvas c is
\* resolved: the mipmaps of its texture are generated.
ResolvedAt(c) ==
  {k \in 1 .. Len(calls') : calls'[k][1] = "glGenerateMipmap" /\ calls'[k][2] = c}

\* C31: when a lovrGpuDraw follows a draw that drew to another set of
\* canvases, every canvas of the set drawn to before, the first and the
\* others, is resolved in the step before its first draw call; and a
\* lovrGpuClear of a canvas resolves the canvas after its clear calls.
C31_DrawnCanvasesResolved ==
  [][/\ (/\ op.name = "lovrGpuDraw" /\ op.error = "none" /\ op.drew
          /\ op'.name = "lovrGpuDraw" /\ op'.drew /\ op'.canvas # op.canvas)
         => \A i \in DOMAIN op.canvas :
              NeedsResolve(op.canvas[i]) =>
                \E k \in ResolvedAt(op.canvas[i]) :
                  \A d \in IssuedCalls(DrawCallNames) : k < d
     /\ (op'.name = "lovrGpuClear" /\ op'.error = "none")
         => \A i \in DOMAIN op'.canvas :
              NeedsResolve(op'.canvas[i]) =>
                \E k \in ResolvedAt(op'.canvas[i]) :
                  \A d \in IssuedCalls({"glClearBufferfv", "glClearBufferiv"}) : d < k]_vars

-----------------------------------------------------------------------------
(* Claims: the texture slots of samplers *)

\* The sampler uniforms of a shader in the order of their enumeration.
SamplersOf(shader) ==
  LET IsSampler(n) == shaders[shader].uniforms[n].type = "UNIFORM_SAMPLER"
  IN SelectSeq(shaders[shader].order, IsSampler)

SlotRange(uniform) ==
  uniform.baseTextureSlot .. (uniform.baseTextureSlot + uniform.count - 1)

\* C32: the slot ranges of the sampler uniforms of a created shader start at
\* slot 0, follow one another without a gap in the order of enumeration and
\* are pairwise disjoint; lovrShaderCreate uploads the slot indices of each
\* sampler into the program once and lovrShaderBind never does; a uniform
\* without a location is not stored and takes no slot.
C32_SamplerSlotsContiguous ==
  \A shader \in ShaderIds :
    shaders[shader].program # 0 =>
      LET u == shaders[shader].uniforms
          samplers == SamplersOf(shader)
      IN /\ \A i \in 1 .. Len(samplers) :
              u[samplers[i]].baseTextureSlot
                = IF i = 1 THEN 0
                  ELSE u[samplers[i - 1]].baseTextureSlot + u[samplers[i - 1]].count
         /\ \A i, j \in 1 .. Len(samplers) :
              i # j => SlotRange(u[samplers[i]]) \cap SlotRange(u[samplers[j]]) = {}
         /\ (op.name = "lovrShaderCreate" /\ op.shader = shader) =>
              /\ \A i \in 1 .. Len(samplers) :
                   Cardinality({k \in 1 .. Len(calls) :
                                  /\ calls[k][1] = "glUniform1iv"
                                  /\ calls[k][2] = samplers[i]}) = 1
              /\ \A k \in 1 .. Len(calls) :
                   calls[k][1] = "glUniform1iv" =>
                     /\ calls[k][2] \in DOMAIN u
                     /\ calls[k][3] = [j \in 1 .. u[calls[k][2]].count |->
                                         u[calls[k][2]].baseTextureSlot + j - 1]
              /\ \A i \in 1 .. Len(op.program.decls) :
                   op.program.decls[i].location = -1 =>
                     op.program.decls[i].name \notin DOMAIN u
         /\ op.name = "lovrShaderBind" =>
              \A k \in 1 .. Len(calls) : calls[k][1] # "glUniform1iv"

\* A shader has been created from a program with a sampler, a sampler array
\* without a location and a sampler array: the array starts at slot 1.
C32_Witness ==
  /\ op.name = "lovrShaderCreate"
  /\ \E i \in 1 .. Len(op.program.decls) :
       /\ op.program.decls[i].location = -1
       /\ op.program.decls[i].type = "UNIFORM_SAMPLER"
  /\ Len(SamplersOf(op.shader)) = 2
  /\ shaders[op.shader].uniforms[SamplersOf(op.shader)[2]].baseTextureSlot = 1
  /\ shaders[op.shader].uniforms[SamplersOf(op.shader)[2]].count = 2

-----------------------------------------------------------------------------
(* Claims: uploading the vertices of a mesh *)

CallsNamed(name) == {k \in 1 .. Len(calls) : calls[k][1] = name}

\* C33: a lovrMeshUnmapVertices that uploads (the mesh had a dirty region)
\* re-uploads the whole vertex store with glBufferData when the mesh was
\* created with MESH_STREAM, and uploads the dirty range with
\* glBufferSubData when it was created with MESH_STATIC or MESH_DYNAMIC.
C33_StreamRewritesWholeStore ==
  (op.name = "lovrMeshUnmapVertices" /\ calls # <<>>) =>
    IF meshes[op.mesh].usage = convertMeshUsage("MESH_STREAM")
      THEN CallsNamed("glBufferData") # {} /\ CallsNamed("glBufferSubData") = {}
      ELSE CallsNamed("glBufferSubData") # {} /\ CallsNamed("glBufferData") = {}

\* The mesh a draw binds and the meshes its shader takes an attribute from.
UsedMeshes(mesh, shader) ==
  {mesh} \cup {meshes[mesh].attachments[key].mesh : key \in Located(World, mesh, shader)}

\* The calls of the step just taken that upload bytes [offset, offset + size)
\* of the buffer bound to target.
UploadsAt(target, offset, size) ==
  {k \in 1 .. Len(calls') :
     /\ calls'[k][1] = "glBufferSubData"
     /\ calls'[k][2] = target
     /\ calls'[k][3] = offset
     /\ calls'[k][4] = size}

\* Every position in ups comes before every draw call of the step.
BeforeDraws(ups) == ups # {} /\ \A k \in ups, d \in DrawCallsIssued : k < d

\* C34: when lovrGpuDraw issues a draw call, the mesh it draws and every mesh
\* that supplies an attribute the shader uses have no dirty vertex range and
\* no mapped indices: a dirty range [dirtyStart, dirtyEnd) and mapped indices
\* were uploaded before the draw call. Mapping vertices for write only grows
\* the dirty range, to hold the range mapped, so that the range uploaded
\* holds every range mapped for write since the upload before.
C34_UploadedBeforeDraw ==
  [][/\ (op'.name = "lovrGpuDraw" /\ DrawCallsIssued # {}) =>
          \A i \in UsedMeshes(1, 1) :
            /\ meshes'[i].dirtyEnd = 0
            /\ ~meshes'[i].mappedIndices
            /\ meshes[i].dirtyEnd # 0 =>
                 /\ meshes'[i].dirtyStart = INT_MAX
                 /\ BeforeDraws(UploadsAt("GL_ARRAY_BUFFER",
                                          meshes[i].dirtyStart * meshes[i].stride,
                                          (meshes[i].dirtyEnd - meshes[i].dirtyStart)
                                            * meshes[i].stride))
            /\ meshes[i].mappedIndices =>
                 BeforeDraws(UploadsAt("GL_ELEMENT_ARRAY_BUFFER", 0,
                                       meshes[i].indexCount * meshes[i].indexSize))
     /\ (op'.name = "lovrMeshMapVertices" /\ op'.write) =>
          /\ meshes'[op'.mesh].dirtyStart <= op'.start
          /\ meshes'[op'.mesh].dirtyStart <= meshes[op'.mesh].dirtyStart
          /\ meshes'[op'.mesh].dirtyEnd >= op'.start + op'.count
          /\ meshes'[op'.mesh].dirtyEnd >= meshes[op'.mesh].dirtyEnd]_vars

\* A draw issued a draw call after it uploaded every vertex of a source mesh
\* and mapped indices.
C34_Witness ==
  /\ op.name = "lovrGpuDraw"
  /\ CallsNamed("glDrawArrays") \cup CallsNamed("glDrawElements") # {}
  /\ \E i \in UsedMeshes(1, 1) \ {1} :
       \E k \in CallsNamed("glBufferSubData") :
         /\ calls[k][2] = "GL_ARRAY_BUFFER"
         /\ calls[k][3] = 0
         /\ calls[k][4] = meshes[i].count * meshes[i].stride
  /\ \E k \in CallsNamed("glBufferSubData") : calls[k][2] = "GL_ELEMENT_ARRAY_BUFFER"

-----------------------------------------------------------------------------
(* Claims: a draw whose targets are rejected *)

\* What lovrGpuDraw throws when glCheckFramebufferStatus rejects the targets.
TargetErrors ==
  {"All multicanvas canvases must have the same dimensions", "Unable to bind framebuffer"}

\* C35: a lovrGpuDraw that throws because its targets are rejected leaves
\* state.canvas and state.canvasCount as they were before the draw, and the
\* same draw repeated after canvases of different dimensions were rejected
\* is rejected again and issues no draw call.
C35_RejectedTargetsNotCached ==
  [][/\ (op'.name = "lovrGpuDraw" /\ op'.error \in TargetErrors) =>
          /\ state'.canvasCount = state.canvasCount
          /\ state'.canvas = state.canvas
     /\ (/\ op.name = "lovrGpuDraw"
         /\ op.error = "All multicanvas canvases must have the same dimensions"
         /\ op'.name = "lovrGpuDraw"
         /\ op'.canvas = op.canvas) =>
          (op'.error \in TargetErrors /\ ~op'.drew)]_vars

-----------------------------------------------------------------------------
(* Claims: the framebuffer a draw call goes to *)

\* The framebuffer bound to GL_FRAMEBUFFER on the device when call k of the
\* step is issued: the last one bound before k in the step, or the one bound
\* before the step, which every bind leaves in state.framebuffer.
FramebufferAt(k) ==
  LET binds == {j \in 1 .. (k - 1) : /\ calls'[j][1] = "glBindFramebuffer"
                                     /\ Len(calls'[j]) = 2}
  IN IF binds = {} THEN state.framebuffer
     ELSE calls'[CHOOSE j \in binds : \A i \in binds : i <= j][2]

\* C36: every draw call of lovrGpuDraw is issued with the framebuffer of the
\* first canvas of the command bound, or framebuffer 0 when the command has
\* no canvas, whatever draws and clears came before.
C36_DrawsToFirstTarget ==
  [][op'.name = "lovrGpuDraw" =>
       \A d \in DrawCallsIssued :
         FramebufferAt(d) = IF op'.canvas = <<>> THEN 0
                            ELSE Canvases[op'.canvas[1]].framebuffer]_vars

-----------------------------------------------------------------------------
(* Claims: the texture unit of a texture operation *)

\* The last glActiveTexture among the first k calls of a sequence, 0 if none.
LastActive(cs, k) ==
  LET units == {j \in 1 .. k : cs[j][1] = "glActiveTexture"}
  IN IF units = {} THEN 0 ELSE CHOOSE j \in units : \A i \in units : i <= j

\* The active texture unit of the device and the texture bound to it when
\* call k of the step is issued, as the step or the operation before it left
\* them: glBindTexture follows each glActiveTexture.
UnitAt(k) ==
  IF LastActive(calls', k - 1) # 0
    THEN [known |-> TRUE, unit |-> calls'[LastActive(calls', k - 1)][2],
          texture |-> calls'[LastActive(calls', k - 1) + 1][2]]
  ELSE IF LastActive(calls, Len(calls)) # 0
    THEN [known |-> TRUE, unit |-> calls[LastActive(calls, Len(calls))][2],
          texture |-> calls[LastActive(calls, Len(calls)) + 1][2]]
  ELSE [known |-> FALSE, unit |-> 0, texture |-> 0]

\* C37: the glTexParameteri calls of lovrTextureSetFilter and
\* lovrTextureSetWrap are issued with texture unit 0 active and the texture
\* of the operation bound to it, whatever was bound to other slots before.
C37_ParametersOnUnitZero ==
  [][op'.name \in {"lovrTextureSetFilter", "lovrTextureSetWrap"} =>
       \A k \in 1 .. Len(calls') :
         (calls'[k][1] = "glTexParameteri" /\ UnitAt(k).known) =>
           /\ UnitAt(k).unit = 0
           /\ UnitAt(k).texture = op'.texture]_vars

-----------------------------------------------------------------------------
(* Claims: the textures a sampler caches *)

\* A cached texture pointer that lovrShaderBind can hand to lovrGpuBindTexture:
\* NULL or a texture that has not been destroyed.
NullOrAlive(t) == t = 0 \/ (t \in TextureIds /\ texRefs[t] > 0)

\* C38: when lovrShaderBind begins, every entry of the cached value of every
\* sampler uniform of the shader is NULL or a texture that is alive, also for
\* a sampler that was never set since lovrShaderCreate.
C38_SamplersHoldLiveTextures ==
  [][op'.name = "lovrShaderBind" =>
       \A i \in DOMAIN SamplersOf(op'.shader) :
         LET uniform == shaders[op'.shader].uniforms[SamplersOf(op'.shader)[i]]
         IN \A j \in 1 .. uniform.count : NullOrAlive(uniform.value[j])]_vars

-----------------------------------------------------------------------------
(* Claims: the tracking lists and destroyed buffers *)

\* C39: every entry of every list of state.sync is the access mask of a buffer
\* that has not been destroyed.
C39_ListsHoldLiveBuffers ==
  \A i \in Access : \A j \in DOMAIN sync[i] : sync[i][j] \in alive

=========================================================================
